---- MODULE Spec2Model ----
(***************************************************************************)
(* A model of the concurrent population engine of cbarrick/evo.            *)
(*                                                                         *)
(* The repository holds several generations of the same packages.  Each    *)
(* is modelled by its own group of variables and its own specification:    *)
(*                                                                         *)
(*   SpecGraph   pop/graph/graph.go      (nodes, run loop, Evolve, Close)  *)
(*   SpecDiff    diffusion/diffusion.go  (nodes, loop, Cross, Close)        *)
(*   SpecPause   unnamed/part_018        (diffusion with pause/resume)      *)
(*   SpecGen     gen/generational.go     (loop, mate, turnover, Close)      *)
(*   SpecPopGen  pop/gen/generational.go (run, Evolve, Start, Close)        *)
(*   SpecPopMig  pop/gen/generational.go (two concurrent migrations)        *)
(*   SpecSel     sel/elite.go, sel/round_robin.go (selection pools)         *)
(*   SpecTopo    Ring, Grid, Hypercube, Custom of both graph packages       *)
(*   SpecIter    Iter of pop/graph and pop/gen over nested populations      *)
(*   SpecSnap    the member lists of pop/gen and gen and their readers      *)
(*   SpecStats   Stats.Put and Stats.Merge, both versions                   *)
(*   SpecIsland  unnamed/part_019        (run, set called by Migrate)       *)
(*   SpecNodeClose unnamed/part_018     (Close and genome Close errors)    *)
(*   SpecInject  gen/generational.go     (injections and turnover)         *)
(*   SpecTourney sel/round_robin.go      (tourney, round by round)         *)
(*                                                                         *)
(* A specification moves only the variables of its own group; the other    *)
(* groups stay at their initial value.                                     *)
(*                                                                         *)
(* An unbuffered channel operation is one action that moves the sender     *)
(* and the receiver together.  Genomes are numbers; 0 is nil.              *)
(***************************************************************************)
EXTENDS Integers, Sequences, FiniteSets, TLC

Nil == 0

(***************************************************************************)
(* Bounds.                                                                 *)
(***************************************************************************)
\* genome identities available to the graph model: the initial genomes
\* 1..2 and the children allocated by Evolve
GMaxGenome == 3
\* genome identities available to the diffusion model: the initial genomes
\* 1..3 and the children allocated by Cross
DMaxGenome == 4
\* genome identities available to the pausing diffusion model: the initial
\* genomes 1..2 and the children allocated by Cross
PMaxGenome == 3
\* genome identities available to the gen model: the members 1..GenSize, the
\* genome another population injects, and the children allocated by Cross
GenMaxGenome == 5
\* pop/gen model: members per population, and the number of genomes that
\* Evolve allocates (it returns its receiver once they are used up)
PopSize == 2
PopMaxFresh == 1
\* sel model: the largest mu, lambda and number of tournament rounds a pool
\* is constructed with, the largest fitness of a competitor, and the number
\* of rounds of lambda Puts a pool is followed for
SelMaxMu == 2
SelMaxLambda == 3
SelMaxTourney == 2
SelMaxFit == 3
SelMaxRounds == 2
\* topology model: the largest number of values given to Ring, Grid and
\* Hypercube, the largest number of values given to Custom with a layout
\* of the caller, and the longest neighbour list of such a layout
TopoMaxSize == 6
TopoMaxCustom == 2
TopoMaxList == 3
\* iteration model: the largest number of members of a population and the
\* depth of nesting of populations (2: a population of populations)
IterMaxMembers == 2
IterMaxDepth == 2
\* member-list model: members per population, the slices that can be
\* allocated, the readers, and the generations followed
SnapSize == 3
SnapMaxArrays == 5
SnapMaxReaders == 2
SnapMaxGen == 4
\* stats model: the values put are in -StMaxAbs..StMaxAbs, and at most
\* StMaxLen of them are put into each of the two accumulators
StMaxAbs == 2
StMaxLen == 2
\* part_019 model: members of the population, generations followed, and
\* the genome identities available (the members, the children, the migrant)
IslSize == 2
IslMaxGen == 3
IslMaxGenome == 6
\* part_018 Close model: nodes of the graph and genome identities
NdSize == 2
NdMaxGenome == 4
\* injection model of gen: turnovers followed, and genomes other
\* populations inject
InjMaxTurns == 3
InjMaxForeign == 2
\* tournament model of sel: the largest tournament has 2 * TrnMaxHalf
\* competitors, of the genomes dummy..TrnMaxFit
TrnMaxHalf == 2
TrnMaxFit == 2
\* number of evolution goroutines of one node the model can represent
GMaxInFlight == 2

VARIABLES
    gNode,      \* pop/graph: node fields and the state of the run goroutine
    gEvo,       \* pop/graph: the evolution goroutines launched by each node
    gMig,       \* pop/graph: the callers of graph.Evolve (migration)
    gCl,        \* pop/graph: the callers of graph.Close
    gHeap,      \* pop/graph: genomes allocated and the Close calls they got
    dNode,      \* diffusion: node fields and the state of the loop goroutine
    dMate,      \* diffusion: the mating goroutine of each node
    dMig,       \* diffusion: the caller of graph.Cross (injection)
    dCl,        \* diffusion: the caller of graph.Close
    dHeap,      \* diffusion: genomes allocated and the Close calls they got
    pNode,      \* pausing diffusion: node fields and the loop goroutine
    pUpd,       \* pausing diffusion: the update goroutine of each node
    pMig,       \* pausing diffusion: the callers of graph.Cross
    pHeap,      \* pausing diffusion: genomes allocated and their Close calls
    genPop,     \* gen: members, next, inject and the loop goroutine
    genMate,    \* gen: the goroutines of mate, one per member
    genCl,      \* gen: the caller of population.Close
    genHeap,    \* gen: genomes allocated and their Close calls
    popPop,     \* pop/gen: population fields and the run goroutine
    popEvo,     \* pop/gen: the goroutines launched by cross
    popMig,     \* pop/gen: the goroutines launched by the migrate case
    popEv,      \* pop/gen: the callers of population.Evolve
    popCl,      \* pop/gen: the callers of population.Close
    popSys,     \* pop/gen: genomes allocated, the Close calls they got, and
                \* whether the program panicked
    selCfg,     \* sel: the pool that was constructed and its arguments
    selPool,    \* sel: the state of the pool goroutine and the out channel
    selHist,    \* sel: the Puts accepted and the genomes returned by Get
    topo,       \* topology: the constructor called, its layout and its result
    itr,        \* Iter: the population walked, the iterator, the yields
    snap,       \* member lists: the slices of a generational population
                \* and the lists handed to its readers
    st,         \* stats: the two accumulators, the values put, the merge
    isl,        \* part_019: the members, the evolutions and a migration
    nod,        \* part_018: nodes, updates and graph.Close with Close errors
    inj,        \* gen: the injections accepted and the turnovers
    trn         \* sel: one call of rrcomps.tourney

gvars == <<gNode, gEvo, gMig, gCl, gHeap>>
dvars == <<dNode, dMate, dMig, dCl, dHeap>>
pvars == <<pNode, pUpd, pMig, pHeap>>
genvars == <<genPop, genMate, genCl, genHeap>>
popvars == <<popPop, popEvo, popMig, popEv, popCl, popSys>>
selvars == <<selCfg, selPool, selHist>>

vars == <<gvars, dvars, pvars, genvars, popvars, selvars, topo, itr, snap, st, isl, nod, inj, trn>>

\* the variables a group leaves alone
notG == <<dvars, pvars, genvars, popvars, selvars, topo, itr, snap, st, isl, nod, inj, trn>>
notD == <<gvars, pvars, genvars, popvars, selvars, topo, itr, snap, st, isl, nod, inj, trn>>
notP == <<gvars, dvars, genvars, popvars, selvars, topo, itr, snap, st, isl, nod, inj, trn>>
notGen == <<gvars, dvars, pvars, popvars, selvars, topo, itr, snap, st, isl, nod, inj, trn>>
notPop == <<gvars, dvars, pvars, genvars, selvars, topo, itr, snap, st, isl, nod, inj, trn>>
notSel == <<gvars, dvars, pvars, genvars, popvars, topo, itr, snap, st, isl, nod, inj, trn>>
notTopo == <<gvars, dvars, pvars, genvars, popvars, selvars, itr, snap, st, isl, nod, inj, trn>>
notIter == <<gvars, dvars, pvars, genvars, popvars, selvars, topo, snap, st, isl, nod, inj, trn>>
notSnap == <<gvars, dvars, pvars, genvars, popvars, selvars, topo, itr, st, isl, nod, inj, trn>>
notStats == <<gvars, dvars, pvars, genvars, popvars, selvars, topo, itr, snap, isl, nod, inj, trn>>
notIsl == <<gvars, dvars, pvars, genvars, popvars, selvars, topo, itr, snap, st, nod, inj, trn>>
notNd == <<gvars, dvars, pvars, genvars, popvars, selvars, topo, itr, snap, st, isl, inj, trn>>
notInj == <<gvars, dvars, pvars, genvars, popvars, selvars, topo, itr, snap, st, isl, nod, trn>>
notTrn == <<gvars, dvars, pvars, genvars, popvars, selvars, topo, itr, snap, st, isl, nod, inj>>

(***************************************************************************)
(*                      diffusion/diffusion.go                             *)
(***************************************************************************)
\* Two graphs built by Hypercube: graph 1 holds the nodes 1 and 2, graph 2
\* holds the node 3.  Custom starts every node.
DGraphs == {1, 2}
DNodeSeq(gr) == IF gr = 1 THEN <<1, 2>> ELSE <<3>>
DNodes == {1, 2, 3}
DGraphOf(n) == IF n = 3 THEN 2 ELSE 1
DGenomes == 1..DMaxGenome

\* Hypercube: the dimension is the smallest d with len(values) <= 2^d;
\* layout[i] has d entries.
RECURSIVE HypercubeDimension(_, _)
HypercubeDimension(size, d) ==
    IF size > 2 ^ d THEN HypercubeDimension(size, d + 1) ELSE d

\* Custom: n.peers[j] = &g.nodes[j] for j ranging over the positions of
\* layout[i].
DPeers(n) ==
    [j \in 1..HypercubeDimension(Len(DNodeSeq(DGraphOf(n))), 0) |->
        DNodeSeq(DGraphOf(n))[j]]

\* go mate(value): the goroutine starts gathering suitors, or calls Cross
\* at once when the node has no peers.
DLaunch(n, value) ==
    [pc |-> IF Len(DPeers(n)) = 0 THEN "call" ELSE "gather",
     val |-> value, suit |-> <<>>, child |-> Nil]

DInit ==
    /\ dNode = [n \in DNodes |->
                  [value |-> n, override |-> FALSE, loop |-> "select"]]
    /\ dMate = [n \in DNodes |-> DLaunch(n, n)]
    /\ dMig = [pc |-> "idle", tgt |-> 0, v |-> Nil]
    /\ dCl = [gr \in DGraphs |-> [pc |-> "idle", idx |-> 1]]
    /\ dHeap = [fresh |-> Cardinality(DNodes) + 1,
                closes |-> [x \in DGenomes |-> 0]]

\* the loop goroutine is at its select; valuec is closed once the loop has
\* taken the close case
DServing(n) == dNode[n].loop = "select"
DValueClosed(n) == dNode[n].loop # "select"

DClosed(heap, x) == heap.closes[x] > 0
DCloseGenome(heap, x) == [heap EXCEPT !.closes[x] = @ + 1]

\* set: if n.value != newval, close the old value and store the new one.
DSetValue(n, newval) ==
    IF dNode[n].value # newval THEN newval ELSE dNode[n].value
DSetHeap(n, newval) ==
    IF dNode[n].value # newval THEN DCloseGenome(dHeap, dNode[n].value)
    ELSE dHeap

DAfterGather(n, x) ==
    [dMate[n] EXCEPT !.suit = Append(@, x),
                     !.pc = IF Len(dMate[n].suit) + 1 = Len(DPeers(n))
                            THEN "call" ELSE "gather"]

DGatherPeer(n) == DPeers(n)[Len(dMate[n].suit) + 1]

\* mate: suiters[i] = n.peers[i].Value(), the value sent by the peer's loop
\* (case n.valuec <- n.value).
DGatherFromLoop(n) ==
    /\ dMate[n].pc = "gather"
    /\ DServing(DGatherPeer(n))
    /\ dMate' = [dMate EXCEPT ![n] = DAfterGather(n, dNode[DGatherPeer(n)].value)]
    /\ UNCHANGED <<dNode, dMig, dCl, dHeap, notD>>

\* node.Value on a closed valuec: the receive yields nil and Value returns
\* the field n.value.
DGatherClosed(n) ==
    /\ dMate[n].pc = "gather"
    /\ DValueClosed(DGatherPeer(n))
    /\ dMate' = [dMate EXCEPT ![n] = DAfterGather(n, dNode[DGatherPeer(n)].value)]
    /\ UNCHANGED <<dNode, dMig, dCl, dHeap, notD>>

\* node.Value: the receive is served by graph.Cross sending on valuec.
DGatherFromMig(n) ==
    /\ dMate[n].pc = "gather"
    /\ dMig.pc = "send"
    /\ dMig.tgt = DGatherPeer(n)
    /\ ~DValueClosed(DGatherPeer(n))
    /\ dMate' = [dMate EXCEPT ![n] = DAfterGather(n, dMig.v)]
    /\ dMig' = [dMig EXCEPT !.pc = "done"]
    /\ UNCHANGED <<dNode, dCl, dHeap, notD>>

\* mate: value.Cross(suiters...) returns its receiver or a genome it
\* allocates; the goroutine then sends it on updates.
DCrossCall(n, child) ==
    /\ dMate[n].pc = "call"
    /\ \/ /\ child = dMate[n].val
          /\ UNCHANGED dHeap
       \/ /\ child = dHeap.fresh
          /\ child <= DMaxGenome
          /\ dHeap' = [dHeap EXCEPT !.fresh = @ + 1]
    /\ dMate' = [dMate EXCEPT ![n].pc = "send", ![n].child = child]
    /\ UNCHANGED <<dNode, dMig, dCl, notD>>

\* loop, case child := <-updates.
DUpdate(n) ==
    /\ DServing(n)
    /\ dMate[n].pc = "send"
    /\ LET newvalue == IF dNode[n].override THEN dNode[n].value
                       ELSE DSetValue(n, dMate[n].child)
       IN /\ dNode' = [dNode EXCEPT ![n].value = newvalue,
                                    ![n].override = FALSE]
          /\ dMate' = [dMate EXCEPT ![n] = DLaunch(n, newvalue)]
    /\ dHeap' = IF dNode[n].override THEN dHeap
                ELSE DSetHeap(n, dMate[n].child)
    /\ UNCHANGED <<dMig, dCl, notD>>

\* graph.Cross on graph 1 with graph 2 as the suitor: pick a random node of
\* g, then compute h.Max().
DCrossStart(tgt) ==
    /\ dMig.pc = "idle"
    /\ DGraphOf(tgt) = 1
    /\ dMig' = [pc |-> "max", tgt |-> tgt, v |-> Nil]
    /\ UNCHANGED <<dNode, dMate, dCl, dHeap, notD>>

\* graph.Max: View reads Value() of every node of h (one node) and takes
\* the fittest.  A closed valuec makes Value return the field n.value.
DMax ==
    /\ dMig.pc = "max"
    /\ dMig' = [dMig EXCEPT !.pc = "send", !.v = dNode[DNodeSeq(2)[1]].value]
    /\ UNCHANGED <<dNode, dMate, dCl, dHeap, notD>>

\* loop, case val := <-n.valuec: set(val); manualOverride = true.
DSetCase(n) ==
    /\ dMig.pc = "send"
    /\ dMig.tgt = n
    /\ DServing(n)
    /\ dNode' = [dNode EXCEPT ![n].value = DSetValue(n, dMig.v),
                              ![n].override = TRUE]
    /\ dHeap' = DSetHeap(n, dMig.v)
    /\ dMig' = [dMig EXCEPT !.pc = "done"]
    /\ UNCHANGED <<dMate, dCl, notD>>

\* graph.Cross: a send on the closed valuec panics.
DSendClosed ==
    /\ dMig.pc = "send"
    /\ DValueClosed(dMig.tgt)
    /\ dMig' = [dMig EXCEPT !.pc = "panic"]
    /\ UNCHANGED <<dNode, dMate, dCl, dHeap, notD>>

\* graph.Close: for i := range g.nodes { g.nodes[i].Close() }
DCloseStart(gr) ==
    /\ dCl[gr].pc = "idle"
    /\ dCl' = [dCl EXCEPT ![gr] = [pc |-> "send", idx |-> 1]]
    /\ UNCHANGED <<dNode, dMate, dMig, dHeap, notD>>

DClNode(gr) == DNodeSeq(gr)[dCl[gr].idx]

\* node.Close: n.closec <- 1.  loop, case x := <-n.closec: close(n.valuec).
DCloseCase(gr) ==
    /\ dCl[gr].pc = "send"
    /\ DServing(DClNode(gr))
    /\ dNode' = [dNode EXCEPT ![DClNode(gr)].loop = "drain"]
    /\ dCl' = [dCl EXCEPT ![gr].pc = "wait"]
    /\ UNCHANGED <<dMate, dMig, dHeap, notD>>

\* loop, close case: n.value = <-updates; n.value.Close(); n.closec <- x;
\* return.  node.Close: <-n.closec; close(n.closec).
DCloseDrain(gr) ==
    /\ dCl[gr].pc = "wait"
    /\ dNode[DClNode(gr)].loop = "drain"
    /\ dMate[DClNode(gr)].pc = "send"
    /\ dNode' = [dNode EXCEPT ![DClNode(gr)].value = dMate[DClNode(gr)].child,
                              ![DClNode(gr)].loop = "returned"]
    /\ dHeap' = DCloseGenome(dHeap, dMate[DClNode(gr)].child)
    /\ dMate' = [dMate EXCEPT ![DClNode(gr)].pc = "none"]
    /\ dCl' = [dCl EXCEPT ![gr] =
                 IF dCl[gr].idx = Len(DNodeSeq(gr))
                 THEN [pc |-> "done", idx |-> dCl[gr].idx]
                 ELSE [pc |-> "send", idx |-> dCl[gr].idx + 1]]
    /\ UNCHANGED <<dMig, notD>>

\* graph.Close called again after it has returned: the first node's
\* Close does n.closec <- 1 on the channel the first call closed, a send on
\* a closed channel.
DCloseAgain(gr) ==
    /\ dCl[gr].pc = "done"
    /\ dCl' = [dCl EXCEPT ![gr] = [pc |-> "panic", idx |-> 1]]
    /\ UNCHANGED <<dNode, dMate, dMig, dHeap, notD>>

DNext ==
    \/ \E n \in DNodes : DGatherFromLoop(n)
    \/ \E n \in DNodes : DGatherClosed(n)
    \/ \E n \in DNodes : DGatherFromMig(n)
    \/ \E n \in DNodes, c \in DGenomes : DCrossCall(n, c)
    \/ \E n \in DNodes : DUpdate(n)
    \/ \E n \in DNodes : DCrossStart(n)
    \/ DMax
    \/ \E n \in DNodes : DSetCase(n)
    \/ DSendClosed
    \/ \E gr \in DGraphs : DCloseStart(gr)
    \/ \E gr \in DGraphs : DCloseCase(gr)
    \/ \E gr \in DGraphs : DCloseDrain(gr)
    \/ \E gr \in DGraphs : DCloseAgain(gr)

(***************************************************************************)
(*                      pop/graph/graph.go                                 *)
(***************************************************************************)
\* Two graphs of one node each: graph 1 holds node 1, graph 2 holds node 2.
\* Each graph is built by Custom with the adjacency list [[0]].
GGraphs == {1, 2}
GNodes == {1, 2}
GGraphOf(n) == n
GNodesOf(gr) == {n \in GNodes : GGraphOf(n) = gr}
\* g.nodes as a sequence of node identities
GNodeSeq(gr) == <<gr>>
\* the adjacency list given to Custom, positions counted from 1
GLayout(gr) == << <<1>> >>
GSlots == 1..GMaxInFlight
GGenomes == 1..GMaxGenome
GMigs == {1}

\* Custom: peers[j] = &g.nodes[j] for j ranging over the positions of
\* layout[i].
GPeers(n) ==
    LET gr == GGraphOf(n)
        i == CHOOSE k \in 1..Len(GNodeSeq(gr)) : GNodeSeq(gr)[k] = n
    IN [j \in 1..Len(GLayout(gr)[i]) |-> GNodeSeq(gr)[j]]

GIdleEvo == [pc |-> "idle", old |-> Nil, idx |-> 0, new |-> Nil]
GIdleMig == [pc |-> "idle", h |-> 0, i |-> 0, j |-> 0, x |-> Nil, y |-> Nil]

GInit ==
    /\ gNode = [n \in GNodes |->
                  [val |-> n, nextval |-> Nil, mate |-> FALSE,
                   running |-> FALSE, loop |-> "none", closed |-> FALSE]]
    /\ gEvo = [n \in GNodes |-> [s \in GSlots |-> GIdleEvo]]
    /\ gMig = [m \in GMigs |-> GIdleMig]
    /\ gCl = [gr \in GGraphs |-> [pc |-> "idle", idx |-> 1]]
    /\ gHeap = [fresh |-> Cardinality(GNodes) + 1,
                closes |-> [x \in GGenomes |-> 0]]

\* the run goroutine of n is at its select and its channels are open
GServing(n) == gNode[n].loop = "select" /\ ~gNode[n].closed

GInFlight(n) == {s \in GSlots : gEvo[n][s].pc # "idle"}

\* graph.Start / node.Start: make the channels, set running, go n.run().
\* run() begins with mate = time.After(n.delay) and nextval = n.val.
\* A graph is started at most once, and not after its Close was called.
GStart(gr) ==
    /\ \A n \in GNodesOf(gr) : gNode[n].loop = "none"
    /\ gCl[gr].pc = "idle"
    /\ gNode' = [n \in GNodes |->
                   IF GGraphOf(n) = gr /\ ~gNode[n].running
                   THEN [gNode[n] EXCEPT !.running = TRUE, !.loop = "select",
                                         !.mate = TRUE, !.closed = FALSE,
                                         !.nextval = gNode[n].val]
                   ELSE gNode[n]]
    /\ UNCHANGED <<gEvo, gMig, gCl, gHeap, notG>>

\* run, case n.delay = <-n.delayc: the pending timer is left as it is
GDelayCaseMateRearmed(m) == TRUE
GDelayCaseMate(m) == m

\* node.SetDelay: through delayc while running, else directly.  Time is
\* not modelled (a timer that is armed fires at any moment), so the value
\* of n.delay is not part of the state.
GSetDelay(n) ==
    /\ IF gNode[n].running THEN GServing(n) ELSE TRUE
    /\ gNode' = [gNode EXCEPT ![n].mate = GDelayCaseMate(gNode[n].mate)]
    /\ UNCHANGED <<gEvo, gMig, gCl, gHeap, notG>>

\* run, case <-mate: launch the evolution goroutine on n.val.
GMate(n) ==
    /\ GServing(n)
    /\ gNode[n].mate
    /\ \E s \in GSlots :
        /\ gEvo[n][s].pc = "idle"
        /\ \A t \in GSlots : t < s => gEvo[n][t].pc # "idle"
        /\ gEvo' = [gEvo EXCEPT ![n][s] =
                      [pc |-> IF Len(GPeers(n)) = 0 THEN "evolve" ELSE "gather",
                       old |-> gNode[n].val, idx |-> 1, new |-> Nil]]
    /\ gNode' = [gNode EXCEPT ![n].mate = FALSE]
    /\ UNCHANGED <<gMig, gCl, gHeap, notG>>

GAfterGather(n, s) ==
    IF gEvo[n][s].idx = Len(GPeers(n))
    THEN [gEvo[n][s] EXCEPT !.pc = "evolve"]
    ELSE [gEvo[n][s] EXCEPT !.idx = @ + 1]

\* evolution goroutine: suiters[i], ok = <-n.peers[i].valc, sent by the
\* peer's run loop.
GGatherFromLoop(n, s) ==
    /\ gEvo[n][s].pc = "gather"
    /\ GServing(GPeers(n)[gEvo[n][s].idx])
    /\ gEvo' = [gEvo EXCEPT ![n][s] = GAfterGather(n, s)]
    /\ UNCHANGED <<gNode, gMig, gCl, gHeap, notG>>

\* evolution goroutine: the peer's valc is closed, ok is false: return.
GGatherClosed(n, s) ==
    /\ gEvo[n][s].pc = "gather"
    /\ gNode[GPeers(n)[gEvo[n][s].idx]].closed
    /\ gEvo' = [gEvo EXCEPT ![n][s] = GIdleEvo]
    /\ UNCHANGED <<gNode, gMig, gCl, gHeap, notG>>

\* the node a migrator is sending to, and the genome it sends
GMigSendNode(m) == IF gMig[m].pc = "sndY" THEN gMig[m].i ELSE gMig[m].j
GMigSendVal(m) == IF gMig[m].pc = "sndY" THEN gMig[m].y ELSE gMig[m].x
GMigSending(m) == gMig[m].pc \in {"sndY", "sndX"}
GMigAfterSend(m) ==
    [gMig[m] EXCEPT !.pc = IF gMig[m].pc = "sndY" THEN "sndX" ELSE "done"]

\* evolution goroutine: the receive on the peer's valc is served by a
\* migrator that is sending on the same channel.
GGatherFromMig(n, s, m) ==
    /\ gEvo[n][s].pc = "gather"
    /\ GMigSending(m)
    /\ GMigSendNode(m) = GPeers(n)[gEvo[n][s].idx]
    /\ ~gNode[GMigSendNode(m)].closed
    /\ gNode[GMigSendNode(m)].loop # "none"
    /\ gEvo' = [gEvo EXCEPT ![n][s] = GAfterGather(n, s)]
    /\ gMig' = [gMig EXCEPT ![m] = GMigAfterSend(m)]
    /\ UNCHANGED <<gNode, gCl, gHeap, notG>>

\* evolution goroutine: newval := oldval.Evolve(suiters...).  Evolve returns
\* its receiver or a genome it allocates.
GEvolveReturn(n, s, child) ==
    /\ gEvo[n][s].pc = "evolve"
    /\ \/ /\ child = gEvo[n][s].old
          /\ UNCHANGED gHeap
       \/ /\ child = gHeap.fresh
          /\ child <= GMaxGenome
          /\ gHeap' = [gHeap EXCEPT !.fresh = @ + 1]
    /\ gEvo' = [gEvo EXCEPT ![n][s].pc = "send", ![n][s].new = child]
    /\ UNCHANGED <<gNode, gMig, gCl, notG>>

\* run, case val := <-done.
GDoneCase(nd, val) ==
    IF nd.nextval = nd.val
    THEN [nd EXCEPT !.nextval = val, !.mate = TRUE]
    ELSE IF val # nd.val /\ val # nd.nextval
         THEN [nd EXCEPT !.mate = TRUE]
         ELSE [nd EXCEPT !.val = nd.nextval, !.mate = TRUE]

GDoneCloses(nd, val) ==
    nd.nextval # nd.val /\ val # nd.val /\ val # nd.nextval

GDone(n, s) ==
    /\ GServing(n)
    /\ gEvo[n][s].pc = "send"
    /\ gNode' = [gNode EXCEPT ![n] = GDoneCase(gNode[n], gEvo[n][s].new)]
    /\ gHeap' = IF GDoneCloses(gNode[n], gEvo[n][s].new)
                THEN [gHeap EXCEPT !.closes[gEvo[n][s].new] = @ + 1]
                ELSE gHeap
    /\ gEvo' = [gEvo EXCEPT ![n][s] = GIdleEvo]
    /\ UNCHANGED <<gMig, gCl, notG>>

\* graph.Evolve on graph m: h, i and j are drawn at random.
GMigStart(m, h, i, j) ==
    /\ gMig[m].pc = "idle"
    /\ i \in GNodesOf(m)
    /\ j \in GNodesOf(h)
    /\ gMig' = [gMig EXCEPT ![m] = [GIdleMig EXCEPT !.pc = "chkX", !.h = h,
                                                    !.i = i, !.j = j]]
    /\ UNCHANGED <<gNode, gEvo, gCl, gHeap, notG>>

GMigReadNode(m) ==
    IF gMig[m].pc \in {"chkX", "rcvX"} THEN gMig[m].i ELSE gMig[m].j
GMigAfterRead(m, v) ==
    IF gMig[m].pc \in {"chkX", "rcvX"}
    THEN [gMig[m] EXCEPT !.pc = "chkY", !.x = v]
    ELSE [gMig[m] EXCEPT !.pc = "sndY", !.y = v]

\* node.Value: if n.running, receive from valc, else read n.val.
GValueCheck(m) ==
    /\ gMig[m].pc \in {"chkX", "chkY"}
    /\ gMig' = [gMig EXCEPT ![m] =
                  IF gNode[GMigReadNode(m)].running
                  THEN [gMig[m] EXCEPT
                          !.pc = IF gMig[m].pc = "chkX" THEN "rcvX" ELSE "rcvY"]
                  ELSE GMigAfterRead(m, gNode[GMigReadNode(m)].val)]
    /\ UNCHANGED <<gNode, gEvo, gCl, gHeap, notG>>

\* node.Value: val = <-n.valc, sent by the run loop (n.valc <- n.val).
GValueFromLoop(m) ==
    /\ gMig[m].pc \in {"rcvX", "rcvY"}
    /\ GServing(GMigReadNode(m))
    /\ gMig' = [gMig EXCEPT ![m] =
                  GMigAfterRead(m, gNode[GMigReadNode(m)].val)]
    /\ UNCHANGED <<gNode, gEvo, gCl, gHeap, notG>>

\* node.Value: valc was closed meanwhile; the receive yields nil.
GValueClosed(m) ==
    /\ gMig[m].pc \in {"rcvX", "rcvY"}
    /\ gNode[GMigReadNode(m)].closed
    /\ gMig' = [gMig EXCEPT ![m] = GMigAfterRead(m, Nil)]
    /\ UNCHANGED <<gNode, gEvo, gCl, gHeap, notG>>

\* graph.Evolve: g.nodes[i].valc <- y, then h.nodes[j].valc <- x, received
\* by the run loop (case nextval = <-n.valc).
GSendToLoop(m) ==
    /\ GMigSending(m)
    /\ GServing(GMigSendNode(m))
    /\ gNode' = [gNode EXCEPT ![GMigSendNode(m)].nextval = GMigSendVal(m)]
    /\ gMig' = [gMig EXCEPT ![m] = GMigAfterSend(m)]
    /\ UNCHANGED <<gEvo, gCl, gHeap, notG>>

\* graph.Evolve: a send on a closed channel panics.
GSendClosed(m) ==
    /\ GMigSending(m)
    /\ gNode[GMigSendNode(m)].closed
    /\ gMig' = [gMig EXCEPT ![m].pc = "panic"]
    /\ UNCHANGED <<gNode, gEvo, gCl, gHeap, notG>>

\* graph.Close: for i := range g.nodes { g.nodes[i].Close() }, called for
\* the first time or again after it has returned.
GCloseStart(gr) ==
    /\ gCl[gr].pc \in {"idle", "done"}
    /\ gCl' = [gCl EXCEPT ![gr] = [pc |-> "node", idx |-> 1]]
    /\ UNCHANGED <<gNode, gEvo, gMig, gHeap, notG>>

GClNode(gr) == GNodeSeq(gr)[gCl[gr].idx]
GClAdvance(gr) ==
    IF gCl[gr].idx = Len(GNodeSeq(gr))
    THEN [pc |-> "done", idx |-> gCl[gr].idx]
    ELSE [pc |-> "node", idx |-> gCl[gr].idx + 1]

\* node.Close on a node that is not running does nothing.
GCloseSkip(gr) ==
    /\ gCl[gr].pc = "node"
    /\ ~gNode[GClNode(gr)].running
    /\ gCl' = [gCl EXCEPT ![gr] = GClAdvance(gr)]
    /\ UNCHANGED <<gNode, gEvo, gMig, gHeap, notG>>

\* node.Close: n.closec <- ch; <-ch.  run, case ch := <-n.closec:
\* ch <- struct{}{}; return.
GCloseCase(gr) ==
    /\ gCl[gr].pc = "node"
    /\ gNode[GClNode(gr)].running
    /\ GServing(GClNode(gr))
    /\ gNode' = [gNode EXCEPT ![GClNode(gr)].loop = "returned"]
    /\ gCl' = [gCl EXCEPT ![gr].pc = "chans"]
    /\ UNCHANGED <<gEvo, gMig, gHeap, notG>>

\* node.Close: close(n.valc); close(n.delayc); close(n.closec);
\* n.running = false.
GCloseChans(gr) ==
    /\ gCl[gr].pc = "chans"
    /\ gNode' = [gNode EXCEPT ![GClNode(gr)].closed = TRUE,
                              ![GClNode(gr)].running = FALSE]
    /\ gCl' = [gCl EXCEPT ![gr] = GClAdvance(gr)]
    /\ UNCHANGED <<gEvo, gMig, gHeap, notG>>

GNext ==
    \/ \E gr \in GGraphs : GStart(gr)
    \/ \E n \in GNodes : GSetDelay(n)
    \/ \E n \in GNodes : GMate(n)
    \/ \E n \in GNodes, s \in GSlots : GGatherFromLoop(n, s)
    \/ \E n \in GNodes, s \in GSlots : GGatherClosed(n, s)
    \/ \E n \in GNodes, s \in GSlots, m \in GMigs : GGatherFromMig(n, s, m)
    \/ \E n \in GNodes, s \in GSlots, c \in GGenomes : GEvolveReturn(n, s, c)
    \/ \E n \in GNodes, s \in GSlots : GDone(n, s)
    \/ \E m \in GMigs, h \in GGraphs, i \in GNodes, j \in GNodes :
          GMigStart(m, h, i, j)
    \/ \E m \in GMigs : GValueCheck(m)
    \/ \E m \in GMigs : GValueFromLoop(m)
    \/ \E m \in GMigs : GValueClosed(m)
    \/ \E m \in GMigs : GSendToLoop(m)
    \/ \E m \in GMigs : GSendClosed(m)
    \/ \E gr \in GGraphs : GCloseStart(gr)
    \/ \E gr \in GGraphs : GCloseSkip(gr)
    \/ \E gr \in GGraphs : GCloseCase(gr)
    \/ \E gr \in GGraphs : GCloseChans(gr)

(***************************************************************************)
(*        unnamed/part_018: package diffusion with pause and resume        *)
(***************************************************************************)
\* Two graphs of one node each built by Hypercube (no peers, so an update
\* calls Cross without suitors): graph 1 holds node 1, graph 2 holds node 2.
\* graph.MaxNode of a one-node graph is its node.
PGraphs == {1, 2}
PNodes == {1, 2}
PGenomes == 1..PMaxGenome

\* Custom: every loop is started; loop launches update() at once.
PInit ==
    /\ pNode = [n \in PNodes |-> [value |-> n, loop |-> "select"]]
    /\ pUpd = [n \in PNodes |-> [pc |-> "call", child |-> Nil]]
    /\ pMig = [m \in PGraphs |-> [pc |-> "idle", them |-> 0]]
    /\ pHeap = [fresh |-> Cardinality(PNodes) + 1,
                closes |-> [x \in PGenomes |-> 0]]

\* update: updates <- n.value.Cross(suiters...); Cross returns its receiver
\* or a genome it allocates.
PUpdateCall(n, child) ==
    /\ pUpd[n].pc = "call"
    /\ \/ /\ child = pNode[n].value
          /\ UNCHANGED pHeap
       \/ /\ child = pHeap.fresh
          /\ child <= PMaxGenome
          /\ pHeap' = [pHeap EXCEPT !.fresh = @ + 1]
    /\ pUpd' = [pUpd EXCEPT ![n] = [pc |-> "send", child |-> child]]
    /\ UNCHANGED <<pNode, pMig, notP>>

\* loop, case child := <-updates: close and replace the value when the
\* child is another genome, then go update().
PUpdateCase(n) ==
    /\ pNode[n].loop = "select"
    /\ pUpd[n].pc = "send"
    /\ pNode' = [pNode EXCEPT ![n].value = pUpd[n].child]
    /\ pHeap' = IF pNode[n].value # pUpd[n].child
                THEN [pHeap EXCEPT !.closes[pNode[n].value] = @ + 1]
                ELSE pHeap
    /\ pUpd' = [pUpd EXCEPT ![n] = [pc |-> "call", child |-> Nil]]
    /\ UNCHANGED <<pMig, notP>>

\* graph.Cross on graph m: the suitor graph is drawn at random.
PCrossStart(m, h) ==
    /\ pMig[m].pc = "idle"
    /\ pMig' = [pMig EXCEPT ![m] = [pc |-> "maxUs", them |-> h]]
    /\ UNCHANGED <<pNode, pUpd, pHeap, notP>>

\* the node the caller of Cross is working on
PMigNode(m) ==
    IF pMig[m].pc \in {"maxUs", "pauseUs", "resumeUs"} THEN m ELSE pMig[m].them

PMigStep(m) ==
    CASE pMig[m].pc = "maxUs" -> "maxThem"
      [] pMig[m].pc = "maxThem" -> "pauseUs"
      [] pMig[m].pc = "pauseUs" -> "pauseThem"
      [] pMig[m].pc = "pauseThem" -> "swap"
      [] pMig[m].pc = "swap" -> "resumeUs"
      [] pMig[m].pc = "resumeUs" -> "resumeThem"
      [] pMig[m].pc = "resumeThem" -> "done"

\* graph.MaxNode: node.Value() receives from valuec, which the loop serves
\* at its select (case n.valuec <- vfpair{n.value, n.fitness}).
PMaxNode(m) ==
    /\ pMig[m].pc \in {"maxUs", "maxThem"}
    /\ pNode[PMigNode(m)].loop = "select"
    /\ pMig' = [pMig EXCEPT ![m].pc = PMigStep(m)]
    /\ UNCHANGED <<pNode, pUpd, pHeap, notP>>

\* node.pause: n.pausec <- true, received by the loop (case x := <-n.pausec),
\* which then blocks on n.pausec <- x.
PPause(m) ==
    /\ pMig[m].pc \in {"pauseUs", "pauseThem"}
    /\ pNode[PMigNode(m)].loop = "select"
    /\ pNode' = [pNode EXCEPT ![PMigNode(m)].loop = "paused"]
    /\ pMig' = [pMig EXCEPT ![m].pc = PMigStep(m)]
    /\ UNCHANGED <<pUpd, pHeap, notP>>

\* node.pause of one caller received by node.resume (<-n.pausec) of another
\* caller on the same channel.
PPauseToResume(m, m2) ==
    /\ m # m2
    /\ pMig[m].pc \in {"pauseUs", "pauseThem"}
    /\ pMig[m2].pc \in {"resumeUs", "resumeThem"}
    /\ PMigNode(m) = PMigNode(m2)
    /\ pMig' = [pMig EXCEPT ![m].pc = PMigStep(m), ![m2].pc = PMigStep(m2)]
    /\ UNCHANGED <<pNode, pUpd, pHeap, notP>>

\* graph.Cross: us.value, them.value = them.value, us.value
PSwap(m) ==
    /\ pMig[m].pc = "swap"
    /\ pNode' = [pNode EXCEPT ![m].value = pNode[pMig[m].them].value,
                              ![pMig[m].them].value = pNode[m].value]
    /\ pMig' = [pMig EXCEPT ![m].pc = PMigStep(m)]
    /\ UNCHANGED <<pUpd, pHeap, notP>>

\* node.resume: <-n.pausec receives what the paused loop sends back; the
\* loop returns to its select.
PResume(m) ==
    /\ pMig[m].pc \in {"resumeUs", "resumeThem"}
    /\ pNode[PMigNode(m)].loop = "paused"
    /\ pNode' = [pNode EXCEPT ![PMigNode(m)].loop = "select"]
    /\ pMig' = [pMig EXCEPT ![m].pc = PMigStep(m)]
    /\ UNCHANGED <<pUpd, pHeap, notP>>

PNext ==
    \/ \E n \in PNodes, c \in PGenomes : PUpdateCall(n, c)
    \/ \E n \in PNodes : PUpdateCase(n)
    \/ \E m \in PGraphs, h \in PGraphs : PCrossStart(m, h)
    \/ \E m \in PGraphs : PMaxNode(m)
    \/ \E m \in PGraphs : PPause(m)
    \/ \E m \in PGraphs, m2 \in PGraphs : PPauseToResume(m, m2)
    \/ \E m \in PGraphs : PSwap(m)
    \/ \E m \in PGraphs : PResume(m)

(***************************************************************************)
(*                gen/generational.go: package gen                         *)
(***************************************************************************)
\* New(members...) with two members; Cross(suiters...) of this population
\* injects the best genome of another population, which keeps it.
GenSize == 2
GenSlots == 1..GenSize
GenInjected == GenSize + 1
GenGenomes == 1..GenMaxGenome

\* mate: one goroutine per member, next[i] not yet written
GenLaunch == [i \in GenSlots |-> "call"]

\* New starts loop, which starts the initial iteration.
GenInit ==
    /\ genPop = [members |-> [i \in GenSlots |-> i],
                 next |-> [i \in GenSlots |-> Nil],
                 inject |-> Nil,
                 loop |-> "select"]
    /\ genMate = GenLaunch
    /\ genCl = "idle"
    /\ genHeap = [fresh |-> GenInjected + 1,
                  closes |-> [x \in GenGenomes |-> 0]]

GenCloseGenome(heap, x) == [heap EXCEPT !.closes[x] = @ + 1]

\* turnover, the injection: if inject != next[i] { next[i].Close();
\* next[i] = inject }
GenInjectNext(next, inject, i) ==
    IF inject # Nil /\ inject # next[i] THEN [next EXCEPT ![i] = inject] ELSE next

GenInjectHeap(heap, next, inject, i) ==
    IF inject # Nil /\ inject # next[i] THEN GenCloseGenome(heap, next[i]) ELSE heap

\* turnover, the loop over p.members: the member is closed when
\* next[i] != p.members[i]
RECURSIVE GenCloseOld(_, _, _, _)
GenCloseOld(heap, members, next, i) ==
    IF i > GenSize THEN heap
    ELSE GenCloseOld(IF next[i] # members[i]
                     THEN GenCloseGenome(heap, members[i])
                     ELSE heap,
                     members, next, i + 1)

\* turnover, then p.members, next = next, p.members (the old members were
\* set to nil)
GenTurnover(pop, i) ==
    [pop EXCEPT !.members = GenInjectNext(pop.next, pop.inject, i),
                !.next = [k \in GenSlots |-> Nil],
                !.inject = Nil]

GenTurnoverHeap(pop, i) ==
    GenCloseOld(GenInjectHeap(genHeap, pop.next, pop.inject, i),
                pop.members,
                GenInjectNext(pop.next, pop.inject, i), 1)

\* mate, goroutine i: next[i] = members[i].Cross(suiters...); Cross returns
\* its receiver or a genome it allocates.
GenCrossCall(i, child) ==
    /\ genMate[i] = "call"
    /\ \/ /\ child = genPop.members[i]
          /\ UNCHANGED genHeap
       \/ /\ child = genHeap.fresh
          /\ child <= GenMaxGenome
          /\ genHeap' = [genHeap EXCEPT !.fresh = @ + 1]
    /\ genPop' = [genPop EXCEPT !.next[i] = child]
    /\ genMate' = [genMate EXCEPT ![i] = "done"]
    /\ UNCHANGED <<genCl, notGen>>

\* wg.Wait() has returned and mate sends on ready
GenReady == \A i \in GenSlots : genMate[i] = "done"

\* loop, case inject = <-p.com.inject (sent by population.Cross)
GenInjectCase ==
    /\ genPop.loop = "select"
    /\ genPop' = [genPop EXCEPT !.inject = GenInjected]
    /\ UNCHANGED <<genMate, genCl, genHeap, notGen>>

\* loop, case p.com.members <- p.members: the reader gets the slice and the
\* loop continues on a copy
GenMembersCase ==
    /\ genPop.loop = "select"
    /\ UNCHANGED <<genPop, genMate, genCl, genHeap, notGen>>

\* loop, case <-ready: turnover() and go mate(p.members)
GenReadyCase(i) ==
    /\ genPop.loop = "select"
    /\ GenReady
    /\ genPop' = GenTurnover(genPop, i)
    /\ genHeap' = GenTurnoverHeap(genPop, i)
    /\ genMate' = GenLaunch
    /\ UNCHANGED <<genCl, notGen>>

\* Close: p.com.close <- true, received by the loop's close case
GenCloseCase ==
    /\ genCl = "idle"
    /\ genPop.loop = "select"
    /\ genCl' = "wait"
    /\ genPop' = [genPop EXCEPT !.loop = "closing"]
    /\ UNCHANGED <<genMate, genHeap, notGen>>

\* loop, close case: <-ready; turnover(); p.com.close <- true; return
GenCloseTurnover(i) ==
    /\ genPop.loop = "closing"
    /\ GenReady
    /\ genPop' = [GenTurnover(genPop, i) EXCEPT !.loop = "returned"]
    /\ genHeap' = GenTurnoverHeap(genPop, i)
    /\ genMate' = [k \in GenSlots |-> "none"]
    /\ genCl' = "done"
    /\ UNCHANGED notGen

\* Close called again after it has returned: p.com.close <- true on the
\* channel the loop closed before it returned, a send on a closed channel.
GenCloseAgain ==
    /\ genCl = "done"
    /\ genCl' = "panic"
    /\ UNCHANGED <<genPop, genMate, genHeap, notGen>>

GenNext ==
    \/ \E i \in GenSlots, c \in GenGenomes : GenCrossCall(i, c)
    \/ GenInjectCase
    \/ GenMembersCase
    \/ \E i \in GenSlots : GenReadyCase(i)
    \/ GenCloseCase
    \/ \E i \in GenSlots : GenCloseTurnover(i)
    \/ GenCloseAgain

(***************************************************************************)
(*              pop/gen/generational.go: package gen                       *)
(***************************************************************************)
\* Two populations A = 1 and B = 2 made by New, each with PopSize members;
\* Evolve is called on each with the other as its only foreign suitor.
PopIds == {1, 2}
PopSlots == 1..PopSize
PopOther(p) == 3 - p
PopMember(p, i) == (p - 1) * PopSize + i
PopNoGen == [i \in PopSlots |-> Nil]

\* New: pop.members = members; nothing runs before Start.
PopInit ==
    /\ popPop = [p \in PopIds |->
                   [members |-> [i \in PopSlots |-> PopMember(p, i)],
                    nextgen |-> PopNoGen, wait |-> 0, mate |-> FALSE,
                    updates |-> <<>>, running |-> FALSE, closed |-> FALSE,
                    loop |-> "none"]]
    /\ popEvo = [p \in PopIds |-> [i \in PopSlots |-> "idle"]]
    /\ popMig = [p \in PopIds |-> [e \in PopIds |-> [pc |-> "none", val |-> Nil]]]
    /\ popEv = [e \in PopIds |-> [pc |-> "idle", a |-> Nil, b |-> Nil]]
    /\ popCl = [p \in PopIds |-> "idle"]
    /\ popSys = [fresh |-> 2 * PopSize + 1, panic |-> FALSE,
                 closes |-> [x \in 1..(2 * PopSize + PopMaxFresh) |-> 0]]

\* cross: wait = 0, then wait++ and one goroutine per member
PopCross(pop) == [pop EXCEPT !.wait = PopSize, !.mate = FALSE]

PopCrossLaunch == [i \in PopSlots |-> "call"]

\* Start: if !pop.running, make the channels and go pop.run(); run calls
\* cross() before its loop.
PopStart(p) ==
    /\ ~popSys.panic
    /\ ~popPop[p].running
    /\ popCl[p] = "idle"
    /\ popPop' = [popPop EXCEPT ![p] = [PopCross(@) EXCEPT !.running = TRUE,
                                                           !.loop = "select"]]
    /\ popEvo' = [popEvo EXCEPT ![p] = PopCrossLaunch]
    /\ UNCHANGED <<popMig, popEv, popCl, popSys, notPop>>

\* goroutine of cross: pop.updates <- members[i].Evolve(members...); Evolve
\* returns its receiver or a genome it allocates.  The channel has room for
\* len(pop.members) values.
PopEvolveDone(p, i, child) ==
    /\ ~popSys.panic
    /\ popEvo[p][i] = "call"
    /\ Len(popPop[p].updates) < PopSize
    /\ \/ /\ child = popPop[p].members[i]
          /\ UNCHANGED popSys
       \/ /\ child = popSys.fresh
          /\ child <= 2 * PopSize + PopMaxFresh
          /\ popSys' = [popSys EXCEPT !.fresh = @ + 1]
    /\ popPop' = [popPop EXCEPT ![p].updates = Append(@, child)]
    /\ popEvo' = [popEvo EXCEPT ![p][i] = "idle"]
    /\ UNCHANGED <<popMig, popEv, popCl, notPop>>

\* run, case pop.delay = <-pop.delayc (SetDelay on a running population);
\* the delay only sets how long the timer takes to fire.
PopDelayCase(p) ==
    /\ ~popSys.panic
    /\ popPop[p].loop = "select"
    /\ UNCHANGED <<popvars, notPop>>

\* run, case pop.membersc <- pop.members: the loop continues on a copy
PopMembersCase(p) ==
    /\ ~popSys.panic
    /\ popPop[p].loop = "select"
    /\ UNCHANGED <<popvars, notPop>>

\* run, case <-mate: cross()
PopMateCase(p) ==
    /\ ~popSys.panic
    /\ popPop[p].loop = "select"
    /\ popPop[p].mate
    /\ popPop' = [popPop EXCEPT ![p] = PopCross(@)]
    /\ popEvo' = [popEvo EXCEPT ![p] = PopCrossLaunch]
    /\ UNCHANGED <<popMig, popEv, popCl, popSys, notPop>>

\* the generation is complete: if wait == 0
PopGenerationCompleteEarly(wait) == wait <= 1

PopGenerationComplete(wait) == wait = 0

\* run, case val := <-pop.updates: wait--; nextgen[wait] = val; at the end
\* of the generation swap nextgen into members, clear nextgen and arm mate.
PopUpdatesStore(pop, val) ==
    [pop EXCEPT !.updates = Tail(@),
                !.wait = @ - 1,
                !.nextgen[pop.wait] = val]

PopSwap(pop) ==
    IF PopGenerationComplete(pop.wait)
    THEN [pop EXCEPT !.members = pop.nextgen, !.nextgen = PopNoGen,
                     !.mate = TRUE]
    ELSE pop

\* runtime.SetFinalizer(nil, ...) and nextgen[-1] fault
PopUpdatesFault(pop) == Head(pop.updates) = Nil \/ pop.wait = 0

PopUpdatesCase(p) ==
    /\ ~popSys.panic
    /\ popPop[p].loop = "select"
    /\ popPop[p].updates # <<>>
    /\ IF PopUpdatesFault(popPop[p])
       THEN /\ popSys' = [popSys EXCEPT !.panic = TRUE]
            /\ UNCHANGED popPop
       ELSE /\ popPop' = [popPop EXCEPT
                  ![p] = PopSwap(PopUpdatesStore(@, Head(@.updates)))]
            /\ UNCHANGED popSys
    /\ UNCHANGED <<popEvo, popMig, popEv, popCl, notPop>>

\* Evolve called on population e: other is the suitor that is not pop.
PopEvolveStart(e) ==
    /\ ~popSys.panic
    /\ popEv[e].pc = "idle"
    /\ popEv' = [popEv EXCEPT ![e].pc = "migA"]
    /\ UNCHANGED <<popPop, popEvo, popMig, popCl, popSys, notPop>>

\* the population whose channel the caller of Evolve is using: chA belongs
\* to pop, chB to other
PopEvTarget(e) ==
    IF popEv[e].pc \in {"migA", "recvA", "sendA"} THEN e ELSE PopOther(e)

PopEvStep(e) ==
    CASE popEv[e].pc = "migA" -> "migB"
      [] popEv[e].pc = "migB" -> "recvA"
      [] popEv[e].pc = "recvA" -> "recvB"
      [] popEv[e].pc = "recvB" -> "sendA"
      [] popEv[e].pc = "sendA" -> "sendB"
      [] popEv[e].pc = "sendB" -> "done"

\* Evolve: pop.migrate <- chA / other.migrate <- chB, received by run's
\* case ch := <-pop.migrate, which launches the migration goroutine.  The
\* send faults once Close has closed the channel.
PopMigrateCase(e) ==
    /\ ~popSys.panic
    /\ popEv[e].pc \in {"migA", "migB"}
    /\ \/ /\ popPop[PopEvTarget(e)].loop = "select"
          /\ popMig' = [popMig EXCEPT ![PopEvTarget(e)][e].pc = "take"]
          /\ popEv' = [popEv EXCEPT ![e].pc = PopEvStep(e)]
          /\ UNCHANGED popSys
       \/ /\ popPop[PopEvTarget(e)].closed
          /\ popSys' = [popSys EXCEPT !.panic = TRUE]
          /\ UNCHANGED <<popMig, popEv>>
    /\ UNCHANGED <<popPop, popEvo, popCl, notPop>>

\* migration goroutine: <-pop.updates, which yields nil once the channel is
\* closed and empty
PopMigTake(p, e) ==
    /\ ~popSys.panic
    /\ popMig[p][e].pc = "take"
    /\ \/ /\ popPop[p].updates # <<>>
          /\ popMig' = [popMig EXCEPT ![p][e] =
                           [pc |-> "send", val |-> Head(popPop[p].updates)]]
          /\ popPop' = [popPop EXCEPT ![p].updates = Tail(@)]
       \/ /\ popPop[p].updates = <<>>
          /\ popPop[p].closed
          /\ popMig' = [popMig EXCEPT ![p][e] = [pc |-> "send", val |-> Nil]]
          /\ UNCHANGED popPop
    /\ UNCHANGED <<popEvo, popEv, popCl, popSys, notPop>>

\* migration goroutine ch <- ..., received by Evolve: a := <-chA, b := <-chB
PopMigToEvolve(e) ==
    /\ ~popSys.panic
    /\ popEv[e].pc \in {"recvA", "recvB"}
    /\ popMig[PopEvTarget(e)][e].pc = "send"
    /\ popEv' = [popEv EXCEPT
          ![e] = IF @.pc = "recvA"
                 THEN [@ EXCEPT !.pc = "recvB", !.a = popMig[e][e].val]
                 ELSE [@ EXCEPT !.pc = "sendA",
                                !.b = popMig[PopOther(e)][e].val]]
    /\ popMig' = [popMig EXCEPT ![PopEvTarget(e)][e].pc = "recv"]
    /\ UNCHANGED <<popPop, popEvo, popCl, popSys, notPop>>

\* Evolve that hands each population its own genome back: chA <- a, chB <- b
PopEvolveSendsBack(e) == IF popEv[e].pc = "sendA" THEN popEv[e].a ELSE popEv[e].b

\* the genome Evolve sends: chA <- b, chB <- a
PopEvolveSends(e) == IF popEv[e].pc = "sendA" THEN popEv[e].b ELSE popEv[e].a

\* Evolve: chA <- b, chB <- a, received by the migration goroutine's <-ch
PopEvolveToMig(e) ==
    /\ ~popSys.panic
    /\ popEv[e].pc \in {"sendA", "sendB"}
    /\ popMig[PopEvTarget(e)][e].pc = "recv"
    /\ popMig' = [popMig EXCEPT ![PopEvTarget(e)][e] =
          [pc |-> "put", val |-> PopEvolveSends(e)]]
    /\ popEv' = [popEv EXCEPT ![e].pc = PopEvStep(e)]
    /\ UNCHANGED <<popPop, popEvo, popCl, popSys, notPop>>

\* migration goroutine: pop.updates <- ..., which faults once the channel
\* is closed
PopMigPut(p, e) ==
    /\ ~popSys.panic
    /\ popMig[p][e].pc = "put"
    /\ \/ /\ ~popPop[p].closed
          /\ Len(popPop[p].updates) < PopSize
          /\ popPop' = [popPop EXCEPT ![p].updates = Append(@, popMig[p][e].val)]
          /\ popMig' = [popMig EXCEPT ![p][e] = [pc |-> "none", val |-> Nil]]
          /\ UNCHANGED popSys
       \/ /\ popPop[p].closed
          /\ popSys' = [popSys EXCEPT !.panic = TRUE]
          /\ UNCHANGED <<popPop, popMig>>
    /\ UNCHANGED <<popEvo, popEv, popCl, notPop>>

\* Close: if pop.running, pop.closec <- ch, received by run's close case
PopCloseCase(p) ==
    /\ ~popSys.panic
    /\ popCl[p] = "idle"
    /\ popPop[p].running
    /\ popPop[p].loop = "select"
    /\ popPop' = [popPop EXCEPT ![p].loop = "drain"]
    /\ popCl' = [popCl EXCEPT ![p] = "wait"]
    /\ UNCHANGED <<popEvo, popMig, popEv, popSys, notPop>>

\* run, close case: for 0 < wait { <-pop.updates; wait-- }
PopCloseDrain(p) ==
    /\ ~popSys.panic
    /\ popPop[p].loop = "drain"
    /\ popPop[p].wait > 0
    /\ popPop[p].updates # <<>>
    /\ popPop' = [popPop EXCEPT ![p].updates = Tail(@), ![p].wait = @ - 1]
    /\ UNCHANGED <<popEvo, popMig, popEv, popCl, popSys, notPop>>

\* run, close case: ch <- struct{}{}; return
PopCloseReply(p) ==
    /\ ~popSys.panic
    /\ popPop[p].loop = "drain"
    /\ popPop[p].wait = 0
    /\ popPop' = [popPop EXCEPT ![p].loop = "returned"]
    /\ popCl' = [popCl EXCEPT ![p] = "closing"]
    /\ UNCHANGED <<popEvo, popMig, popEv, popSys, notPop>>

\* Close: close the channels; pop.running = false
PopCloseChans(p) ==
    /\ ~popSys.panic
    /\ popCl[p] = "closing"
    /\ popPop' = [popPop EXCEPT ![p].closed = TRUE, ![p].running = FALSE]
    /\ popCl' = [popCl EXCEPT ![p] = "done"]
    /\ UNCHANGED <<popEvo, popMig, popEv, popSys, notPop>>

\* the steps of run, Evolve and the migration goroutines
PopSteps ==
    \/ \E p \in PopIds : PopMateCase(p)
    \/ \E p \in PopIds : PopUpdatesCase(p)
    \/ \E e \in PopIds : PopMigrateCase(e)
    \/ \E p \in PopIds, e \in PopIds : PopMigTake(p, e)
    \/ \E e \in PopIds : PopMigToEvolve(e)
    \/ \E e \in PopIds : PopEvolveToMig(e)
    \/ \E p \in PopIds, e \in PopIds : PopMigPut(p, e)

\* the steps of every goroutine the package starts
PopProgress ==
    \/ PopSteps
    \/ \E p \in PopIds, i \in PopSlots, c \in 1..(2 * PopSize + PopMaxFresh) :
          PopEvolveDone(p, i, c)

\* the calls that do not end a population: Start, SetDelay, readers
PopCalls ==
    \/ \E p \in PopIds : PopStart(p)
    \/ \E p \in PopIds : PopDelayCase(p)
    \/ \E p \in PopIds : PopMembersCase(p)

\* Close, from the call to its return
PopClose ==
    \/ \E p \in PopIds : PopCloseCase(p)
    \/ \E p \in PopIds : PopCloseDrain(p)
    \/ \E p \in PopIds : PopCloseReply(p)
    \/ \E p \in PopIds : PopCloseChans(p)

\* populations with Start, Close and one migration: A.Evolve(B)
PopNext ==
    \/ PopProgress
    \/ PopCalls
    \/ PopClose
    \/ PopEvolveStart(1)

\* two populations that migrate with each other, A.Evolve(B) and
\* B.Evolve(A), and whose members return themselves from Evolve
PopMigNext ==
    \/ PopSteps
    \/ \E p \in PopIds, i \in PopSlots :
          PopEvolveDone(p, i, popPop[p].members[i])
    \/ PopCalls
    \/ \E e \in PopIds : PopEvolveStart(e)

(***************************************************************************)
(*        sel/elite.go, sel/round_robin.go: the selection pools            *)
(***************************************************************************)
\* A competitor is a genome whose fitness is its number, except for the
\* least fit one, whose Fitness() returns math.Inf(-1); the competitors
\* put during one round have distinct fitness.  dummy is the opponent in
\* the bye of an odd tournament and has fitness -Inf.
SelGenomes == 1..SelMaxFit
dummy == 0
SelNegInf == -1
Fitness(g) == IF g = dummy \/ g = SelNegInf + 2 THEN SelNegInf ELSE g

\* the pools: ElitePool, RoundRobinPool and NewElite
SelKinds == {"ElitePool", "RoundRobinPool", "NewElite"}

\* no pool has been constructed
SelInit ==
    /\ selCfg = [kind |-> "none", mu |-> 0, lambda |-> 0, rounds |-> 0]
    /\ selPool = [phase |-> "none", pool |-> <<>>, i |-> 0, out |-> <<>>,
                  poolsize |-> 0]
    /\ selHist = [puts |-> 0, got |-> <<>>, expect |-> <<>>]

\* ElitePool(mu, lambda), RoundRobinPool(mu, lambda, rounds) and
\* NewElite(popsize, poolsize) make the channels and start the goroutine.
SelNew(kind, mu, lambda, rounds) ==
    /\ selCfg.kind = "none"
    /\ kind = "RoundRobinPool" \/ rounds = 1
    /\ selCfg' = [kind |-> kind, mu |-> mu, lambda |-> lambda, rounds |-> rounds]
    /\ selPool' = [selPool EXCEPT !.phase = "fill", !.poolsize = lambda]
    /\ UNCHANGED <<selHist, notSel>>

\* the mu fittest of a set of competitors, fittest first
RECURSIVE SelTop(_, _)
SelTop(S, k) ==
    IF k = 0 \/ S = {} THEN <<>>
    ELSE LET best == CHOOSE x \in S : \A y \in S : Fitness(y) <= Fitness(x)
         IN <<best>> \o SelTop(S \ {best}, k - 1)

SelRange(q) == {q[k] : k \in 1..Len(q)}

\* a Put was accepted: count it, and when it completes a round record the
\* winners that round has to deliver
SelRecordPut(hist, round) ==
    [hist EXCEPT !.puts = @ + 1,
                 !.expect = IF Len(round) = selCfg.lambda
                            THEN @ \o SelTop(SelRange(round), selCfg.mu)
                            ELSE @]

\* Put on ElitePool and RoundRobinPool: p.in <- val, received in the loop
\* for len(pool) < lambda by case val := <-p.in
SelPut(val) ==
    /\ selCfg.kind \in {"ElitePool", "RoundRobinPool"}
    /\ selPool.phase = "fill"
    /\ Len(selPool.pool) < selCfg.lambda
    /\ val \notin SelRange(selPool.pool)
    /\ selHist.puts < SelMaxRounds * selCfg.lambda
    /\ selPool' = [selPool EXCEPT !.pool = Append(@, val)]
    /\ selHist' = SelRecordPut(selHist, Append(selPool.pool, val))
    /\ UNCHANGED <<selCfg, notSel>>

\* elcomps.Less: descending order by fitness
ElLessAscending(a, b) == Fitness(a) < Fitness(b)

ElLess(a, b) == Fitness(a) > Fitness(b)

\* elcomps.sort: evaluate every fitness, then sort.Sort(pool)
RECURSIVE ElInsert(_, _)
ElInsert(sorted, x) ==
    IF sorted = <<>> THEN <<x>>
    ELSE IF ElLess(x, Head(sorted)) THEN <<x>> \o sorted
    ELSE <<Head(sorted)>> \o ElInsert(Tail(sorted), x)

RECURSIVE ElSort(_)
ElSort(pool) ==
    IF pool = <<>> THEN <<>> ELSE ElInsert(ElSort(Tail(pool)), Head(pool))

\* pool = pool[:mu] faults when mu exceeds the capacity of the slice
SelSlice(pool, cap) ==
    IF selCfg.mu <= cap
    THEN [selPool EXCEPT !.phase = "send", !.i = 1,
                         !.pool = SubSeq(pool, 1, selCfg.mu)]
    ELSE [selPool EXCEPT !.phase = "panic"]

\* ElitePool, after the lambda competitors: pool.sort(); pool = pool[:mu]
ElitePoolSort ==
    /\ selCfg.kind = "ElitePool"
    /\ selPool.phase = "fill"
    /\ Len(selPool.pool) = selCfg.lambda
    /\ selPool' = SelSlice(ElSort(selPool.pool), selCfg.lambda)
    /\ UNCHANGED <<selCfg, selHist, notSel>>

\* rand.Perm(n): the orderings of 1..n
SelPerms(n) == {f \in [1..n -> 1..n] : \A a, b \in 1..n : f[a] = f[b] => a = b}

\* tourney, run(i, j): the winner of a pairing
RRWinner(pool, i, j) == IF Fitness(pool[i]) < Fitness(pool[j]) THEN j ELSE i

\* tourney, one round: go run(sched[i], sched[size-1-i]) for i < half; the
\* wins each competitor gains
RRRoundWins(pool, sched, c) ==
    Cardinality({k \in 1..(Len(pool) \div 2) :
                    RRWinner(pool, sched[k], sched[Len(pool) + 1 - k]) = c})

\* a rotation of the whole schedule, the last element included
RRRotateAll(sched) ==
    [k \in 1..Len(sched) |-> IF k = Len(sched) THEN sched[1] ELSE sched[k + 1]]

\* tourney: rotate the schedule, keeping the last element in place
RRRotate(sched) ==
    [k \in 1..Len(sched) |->
        IF k = Len(sched) THEN sched[k]
        ELSE IF k = Len(sched) - 1 THEN sched[1]
        ELSE sched[k + 1]]

\* tourney: the score of every competitor after the rounds; the dummy
\* starts at -1
RECURSIVE RRWins(_, _, _)
RRWins(pool, sched, rounds) ==
    IF rounds = 0
    THEN [c \in 1..Len(pool) |-> IF pool[c] = dummy THEN -1 ELSE 0]
    ELSE LET rest == RRWins(pool, RRRotate(sched), rounds - 1)
         IN [c \in 1..Len(pool) |-> rest[c] + RRRoundWins(pool, sched, c)]

\* rrcomps.Less and sort.Sort(pool): descending order by wins, in any order
\* among equal wins
RRSorted(wins, order) ==
    \A a, b \in 1..Len(order) : a < b => wins[order[a]] >= wins[order[b]]

\* RoundRobinPool: the pool with the dummy appended when lambda is odd
RRPadded(pool) == IF selCfg.lambda % 2 # 0 THEN Append(pool, dummy) ELSE pool

\* RoundRobinPool, after the lambda competitors: pad, pool.tourney(rounds),
\* pool = pool[:mu]
RoundRobinPoolTourney(sched, order) ==
    /\ selCfg.kind = "RoundRobinPool"
    /\ selPool.phase = "fill"
    /\ Len(selPool.pool) = selCfg.lambda
    /\ sched \in SelPerms(Len(RRPadded(selPool.pool)))
    /\ order \in SelPerms(Len(RRPadded(selPool.pool)))
    /\ RRSorted(RRWins(RRPadded(selPool.pool), sched, selCfg.rounds), order)
    /\ selPool' = SelSlice([k \in 1..Len(order) |-> RRPadded(selPool.pool)[order[k]]],
                           selCfg.lambda + (selCfg.lambda % 2))
    /\ UNCHANGED <<selCfg, selHist, notSel>>

\* the goroutine after p.out <- pool[i].Genome: next winner, or
\* pool = pool[:0] and back to receiving competitors
SelSent(pool) ==
    IF pool.i < Len(pool.pool)
    THEN [pool EXCEPT !.i = @ + 1]
    ELSE [pool EXCEPT !.i = 0, !.pool = <<>>, !.phase = "fill"]

\* ElitePool: p.out <- pool[i].Genome on the channel buffered for mu values
ElitePoolSend ==
    /\ selCfg.kind = "ElitePool"
    /\ selPool.phase = "send"
    /\ Len(selPool.out) < selCfg.mu
    /\ selPool' = SelSent([selPool EXCEPT !.out = Append(@, selPool.pool[selPool.i])])
    /\ UNCHANGED <<selCfg, selHist, notSel>>

\* Get on ElitePool and NewElite: val = <-p.out, from the buffer
SelGet ==
    /\ selPool.out # <<>>
    /\ selPool' = [selPool EXCEPT !.out = Tail(@)]
    /\ selHist' = [selHist EXCEPT !.got = Append(@, Head(selPool.out))]
    /\ UNCHANGED <<selCfg, notSel>>

\* RoundRobinPool: p.out <- pool[i].Genome on the unbuffered channel,
\* received by Get
RoundRobinPoolGet ==
    /\ selCfg.kind = "RoundRobinPool"
    /\ selPool.phase = "send"
    /\ selPool' = SelSent(selPool)
    /\ selHist' = [selHist EXCEPT !.got = Append(@, selPool.pool[selPool.i])]
    /\ UNCHANGED <<selCfg, notSel>>

\* Close: p.close <- ch, received by a select of the goroutine, which
\* answers and returns
SelClose ==
    /\ \/ selPool.phase = "send"
       \/ /\ selPool.phase = "fill"
          /\ selCfg.kind = "NewElite" \/ Len(selPool.pool) < selCfg.lambda
    /\ selPool' = [selPool EXCEPT !.phase = "closed"]
    /\ UNCHANGED <<selCfg, selHist, notSel>>

\* the range of uint: TLC numbers have 32 bits, so 2^30 stands for 2^64
SelUintRange == 1073741824

\* Elite.run: window = poolsize - popsize, in uint
NewEliteWindow ==
    IF selCfg.lambda >= selCfg.mu THEN selCfg.lambda - selCfg.mu
    ELSE selCfg.lambda - selCfg.mu + SelUintRange

\* Elite.run, case val := <-e.in: insert into the list kept in descending
\* order of fitness, behind the items that are not less fit
RECURSIVE NewEliteInsert(_, _)
NewEliteInsert(list, x) ==
    IF list = <<>> THEN <<x>>
    ELSE IF Fitness(Head(list)) < Fitness(x) THEN <<x>> \o list
    ELSE <<Head(list)>> \o NewEliteInsert(Tail(list), x)

NewElitePut(val) ==
    /\ selCfg.kind = "NewElite"
    /\ selPool.phase = "fill"
    /\ val \notin SelRange(selPool.pool)
    /\ selHist.puts < SelMaxRounds * selCfg.lambda
    /\ selPool' = [selPool EXCEPT !.pool = NewEliteInsert(@, val)]
    /\ selHist' = [selHist EXCEPT !.puts = @ + 1]
    /\ UNCHANGED <<selCfg, notSel>>

\* Elite.run, default case: if best != nil && best.len >= window, send the
\* best on e.out (buffered for popsize values), drop it from the list and
\* reset once popsize values went out
NewEliteEmit ==
    /\ selCfg.kind = "NewElite"
    /\ selPool.phase = "fill"
    /\ selPool.pool # <<>>
    /\ Len(selPool.pool) >= NewEliteWindow
    /\ Len(selPool.out) < selCfg.mu
    /\ selPool' = [selPool EXCEPT
          !.out = Append(@, Head(selPool.pool)),
          !.pool = IF selPool.poolsize - 1 = NewEliteWindow
                   THEN <<>> ELSE Tail(@),
          !.poolsize = IF selPool.poolsize - 1 = NewEliteWindow
                       THEN NewEliteWindow + selCfg.mu ELSE @ - 1]
    /\ UNCHANGED <<selCfg, selHist, notSel>>

SelNext ==
    \/ \E kind \in SelKinds, mu \in 1..SelMaxMu, lambda \in 1..SelMaxLambda,
          rounds \in 1..SelMaxTourney : SelNew(kind, mu, lambda, rounds)
    \/ \E val \in SelGenomes : SelPut(val)
    \/ ElitePoolSort
    \/ \E n \in 1..(SelMaxLambda + 1) : \E sched \in SelPerms(n), order \in SelPerms(n) :
          RoundRobinPoolTourney(sched, order)
    \/ ElitePoolSend
    \/ SelGet
    \/ RoundRobinPoolGet
    \/ SelClose
    \/ \E val \in SelGenomes : NewElitePut(val)
    \/ NewEliteEmit

(***************************************************************************)
(*   pop/graph/graph.go, diffusion/diffusion.go: the graph constructors    *)
(***************************************************************************)
\* Nodes are numbered from 0 as in the source; layout[i] and peers[i] are
\* sequences, so position j of the source is element j + 1.
TopoPkgs == {"pop/graph", "diffusion"}

\* no constructor has been called
TopoInit ==
    topo = [pkg |-> "none", fn |-> "none", size |-> 0, layout |-> <<>>,
            peers |-> <<>>, ok |-> FALSE]

\* the % of Go truncates towards zero
GoMod(a, n) == IF a >= 0 THEN a % n ELSE 0 - ((0 - a) % n)

\* the ^ of Go on non-negative operands
RECURSIVE GoXor(_, _)
GoXor(a, b) ==
    IF a = 0 THEN b
    ELSE IF b = 0 THEN a
    ELSE (((a % 2) + (b % 2)) % 2) + 2 * GoXor(a \div 2, b \div 2)

\* Ring: layout[i][0] is assigned twice and layout[i][1] keeps the zero
\* value of make
RingLayout(size) ==
    [i \in 0..(size - 1) |-> <<GoMod(i + 1, size), 0>>]

\* Grid of pop/graph: width := len(values) << 1
GridWidth(size) == size * 2

\* Grid of diffusion: offset := len(values) / 2
GridOffset(size) == size \div 2

\* Grid: the four entries of layout[i]
GridLayout(size, offset) ==
    [i \in 0..(size - 1) |->
        <<GoMod(i + 1 + size, size), GoMod(i - 1 + size, size),
          GoMod(i + offset + size, size), GoMod(i - offset + size, size)>>]

\* Hypercube: layout[i][j] = (i ^ (1 << uint(j))) % len(values)
HypercubeNeighbourNoMod(i, j, size) == GoXor(i, 2 ^ j)

HypercubeNeighbour(i, j, size) == GoMod(GoXor(i, 2 ^ j), size)

HypercubeLayout(size) ==
    [i \in 0..(size - 1) |->
        [k \in 1..HypercubeDimension(size, 0) |-> HypercubeNeighbour(i, k - 1, size)]]

\* Custom of diffusion validates the layout: every layout[i][j] >= size
\* panics.  Custom of pop/graph has no validation.
CustomValid(pkg, layout, size) ==
    pkg = "diffusion" =>
        \A i \in 0..(size - 1) : \A k \in 1..Len(layout[i]) : layout[i][k] < size

\* Custom: peers[j] = &g.nodes[j] for j := range layout[i]; the index
\* expression faults when j is not below len(g.nodes)
CustomPeers(layout, size) ==
    [i \in 0..(size - 1) |-> [k \in 1..Len(layout[i]) |-> k - 1]]

CustomInRange(layout, size) ==
    \A i \in 0..(size - 1) : Len(layout[i]) <= size

\* Custom(layout, values), len(layout) = len(values) = size
Custom(pkg, fn, layout, size) ==
    [pkg |-> pkg, fn |-> fn, size |-> size, layout |-> layout,
     peers |-> IF CustomValid(pkg, layout, size) /\ CustomInRange(layout, size)
               THEN CustomPeers(layout, size) ELSE <<>>,
     ok |-> CustomValid(pkg, layout, size) /\ CustomInRange(layout, size)]

\* the neighbour lists a caller may pass: up to TopoMaxList indices, each
\* from 0 to size (size itself is no node)
TopoLists(size) ==
    UNION {[1..len -> 0..size] : len \in 0..TopoMaxList}

TopoRing(pkg, size) ==
    /\ topo.fn = "none"
    /\ topo' = Custom(pkg, "Ring", RingLayout(size), size)
    /\ UNCHANGED notTopo

TopoGrid(pkg, size) ==
    /\ topo.fn = "none"
    /\ topo' = Custom(pkg, "Grid",
                      GridLayout(size, IF pkg = "diffusion" THEN GridOffset(size)
                                       ELSE GridWidth(size)),
                      size)
    /\ UNCHANGED notTopo

TopoHypercube(pkg, size) ==
    /\ topo.fn = "none"
    /\ topo' = Custom(pkg, "Hypercube", HypercubeLayout(size), size)
    /\ UNCHANGED notTopo

TopoCustom(pkg, layout, size) ==
    /\ topo.fn = "none"
    /\ topo' = Custom(pkg, "Custom", layout, size)
    /\ UNCHANGED notTopo

TopoNext ==
    \/ \E pkg \in TopoPkgs, size \in 1..TopoMaxSize : TopoRing(pkg, size)
    \/ \E pkg \in TopoPkgs, size \in 1..TopoMaxSize : TopoGrid(pkg, size)
    \/ \E pkg \in TopoPkgs, size \in 1..TopoMaxSize : TopoHypercube(pkg, size)
    \/ \E pkg \in TopoPkgs, size \in 1..TopoMaxCustom :
          \E layout \in [0..(size - 1) -> TopoLists(size)] :
             TopoCustom(pkg, layout, size)

(***************************************************************************)
(*   Iter of pop/graph/graph.go and pop/gen/generational.go                *)
(***************************************************************************)
\* A member is a leaf genome or a population.  A population is a graph of
\* pop/graph or a population of pop/gen; run tells whether it was never
\* started ("new"), is running, or was closed.  Nothing evolves while the
\* iterator walks.  A genome is identified by its path: the indices, counted
\* from 0, that lead to it from the population Iter was called on.
IterLeaf == [kind |-> "leaf", run |-> "none", vals |-> <<>>]

\* the type assertion val.(evo.Population)
IterIsPop(x) == x.kind # "leaf"

IterKinds ==
    {<<"graph", "new">>, <<"graph", "running">>,
     <<"gen", "new">>, <<"gen", "running">>, <<"gen", "closed">>}

IterPopsOf(items) ==
    {[kind |-> k[1], run |-> k[2], vals |-> v] :
        k \in IterKinds,
        v \in UNION {[1..n -> items] : n \in 0..IterMaxMembers}}

RECURSIVE IterPops(_)
IterPops(depth) ==
    IF depth = 0 THEN {}
    ELSE IterPopsOf({IterLeaf} \cup IterPops(depth - 1))

IterInit ==
    itr = [phase |-> "none", pop |-> IterLeaf, fr |-> <<>>, out |-> <<>>]

\* iterate(g) of pop/graph: it.val = g.nodes[0].Value(), which reads n.val
\* or receives it from the run goroutine; g.nodes[0] of an empty graph is
\* out of range.  iterate(pop) of pop/gen: vals, ok := <-pop.membersc, which
\* blocks for ever on the nil channel of a population never started, is
\* answered by run, or yields ok = false on the closed channel and then
\* it.vals = pop.members; it.vals[0] of an empty list is out of range.
\* In both, a first member that is a population gives it.sub = pop.Iter().
\* The iterator is the sequence of the nested iter structs: element k + 1
\* is the sub of element k.
RECURSIVE IterNew(_)
IterNew(p) ==
    IF p.kind = "gen" /\ p.run = "new" THEN [st |-> "blocked", fr |-> <<>>]
    ELSE IF Len(p.vals) = 0 THEN [st |-> "panic", fr |-> <<>>]
    ELSE LET f == [pop |-> p, idx |-> 0, live |-> TRUE]
         IN IF IterIsPop(p.vals[1])
            THEN LET sub == IterNew(p.vals[1])
                 IN [st |-> sub.st, fr |-> <<f>> \o sub.fr]
            ELSE [st |-> "ok", fr |-> <<f>>]

\* Value: the value of the sub-iterator when there is one; else it.val of
\* pop/graph (nil once Next has set it.g = nil), or it.vals[it.idx] of
\* pop/gen (nil when it.idx == len(it.vals)).  <<>> stands for nil.
RECURSIVE IterValue(_)
IterValue(fr) ==
    IF Len(fr) > 1
    THEN LET v == IterValue(Tail(fr))
         IN IF v = <<>> THEN <<>> ELSE <<fr[1].idx>> \o v
    ELSE IF fr[1].pop.kind = "graph"
         THEN (IF fr[1].live THEN <<fr[1].idx>> ELSE <<>>)
         ELSE (IF fr[1].idx = Len(fr[1].pop.vals) THEN <<>> ELSE <<fr[1].idx>>)

\* Next, after it.idx++ found a member: if it is a population,
\* it.sub = pop.Iter()
IterEnter(f) ==
    IF IterIsPop(f.pop.vals[f.idx + 1])
    THEN LET sub == IterNew(f.pop.vals[f.idx + 1])
         IN [st |-> sub.st, fr |-> <<f>> \o sub.fr]
    ELSE [st |-> "ok", fr |-> <<f>>]

\* Next, the default case: it.idx++, then the end of the members (pop/graph
\* sets it.g = nil and it.val = nil, and dereferences it.g when called
\* again) or the next member.
IterAdvance(f) ==
    IF f.pop.kind = "graph" /\ ~f.live THEN [st |-> "panic", fr |-> <<f>>]
    ELSE IF f.idx + 1 >= Len(f.pop.vals)
         THEN [st |-> "ok",
               fr |-> <<[f EXCEPT !.idx = @ + 1,
                                  !.live = (f.pop.kind # "graph")]>>]
         ELSE IterEnter([f EXCEPT !.idx = @ + 1])

\* Next: case it.sub != nil: it.sub.Next(); if it.sub.Value() != nil
\* { break }; it.sub = nil; fallthrough.
RECURSIVE IterNext(_)
IterNext(fr) ==
    IF Len(fr) > 1
    THEN LET sub == IterNext(Tail(fr))
         IN IF sub.st # "ok" THEN [st |-> sub.st, fr |-> <<fr[1]>> \o sub.fr]
            ELSE IF IterValue(sub.fr) # <<>>
                 THEN [st |-> "ok", fr |-> <<fr[1]>> \o sub.fr]
                 ELSE IterAdvance(fr[1])
    ELSE IterAdvance(fr[1])

\* for i := pop.Iter(); ...
IterIter(p) ==
    /\ itr.phase = "none"
    /\ LET it == IterNew(p)
       IN itr' = [phase |-> IF it.st = "ok" THEN "loop" ELSE it.st,
                  pop |-> p, fr |-> it.fr, out |-> <<>>]
    /\ UNCHANGED notIter

\* ...; i.Value() != nil; i.Next() { use i.Value() }
IterYield ==
    /\ itr.phase = "loop"
    /\ IterValue(itr.fr) # <<>>
    /\ LET it == IterNext(itr.fr)
       IN itr' = [itr EXCEPT !.phase = IF it.st = "ok" THEN "loop" ELSE it.st,
                             !.fr = it.fr,
                             !.out = Append(@, IterValue(itr.fr))]
    /\ UNCHANGED notIter

\* the loop ends when i.Value() == nil
IterEnd ==
    /\ itr.phase = "loop"
    /\ IterValue(itr.fr) = <<>>
    /\ itr' = [itr EXCEPT !.phase = "done"]
    /\ UNCHANGED notIter

IterLoopNext ==
    \/ \E p \in IterPops(IterMaxDepth) : IterIter(p)
    \/ IterYield
    \/ IterEnd

(***************************************************************************)
(*  The member lists of pop/gen/generational.go and gen/generational.go    *)
(***************************************************************************)
\* A slice is an index into snap.arrs, the backing arrays allocated so far;
\* 0 is no slice.  A genome is named by the generation it was made for:
\* the initial members are 1, their children 2, and so on; Nil is nil.
SnapPkgs == {"pop/gen", "gen"}
SnapSlots == 1..SnapSize
SnapNoList == [i \in SnapSlots |-> Nil]

SnapInit ==
    snap = [pkg |-> "none", arrs |-> <<>>, members |-> 0, next |-> 0,
            gen |-> 0, wait |-> 0, done |-> {}, mate |-> FALSE,
            readers |-> <<>>]

\* New and Start of pop/gen: pop.members = members,
\* nextgen = make([]evo.Genome, len(pop.members)), cross() sets wait.
\* gen: next := make([]evo.Genome, len(p.members)); go mate(p.members).
SnapNew(pkg) ==
    /\ snap.pkg = "none"
    /\ snap' = [snap EXCEPT !.pkg = pkg,
                            !.arrs = <<[i \in SnapSlots |-> 1], SnapNoList>>,
                            !.members = 1, !.next = 2, !.gen = 1,
                            !.wait = IF pkg = "pop/gen" THEN SnapSize ELSE 0]
    /\ UNCHANGED notSnap

\* memcopy := make([]evo.Genome, len(pop.members));
\* copy(memcopy, pop.members); pop.members = memcopy
SnapMemcopyShared(s) == s

SnapMemcopy(s) ==
    [s EXCEPT !.arrs = Append(@, s.arrs[s.members]),
              !.members = Len(s.arrs) + 1]

\* case pop.membersc <- pop.members (pop/gen), case p.com.members <-
\* p.members (gen): the reader receives the slice, the loop copies it.
SnapMembersCase ==
    /\ snap.pkg # "none"
    /\ Len(snap.arrs) < SnapMaxArrays
    /\ Len(snap.readers) < SnapMaxReaders
    /\ snap' = [SnapMemcopy(snap) EXCEPT
                   !.readers = Append(@, [list |-> snap.members,
                                          seen |-> snap.arrs[snap.members]])]
    /\ UNCHANGED notSnap

\* pop.members, nextgen = nextgen, pop.members;
\* for i := range nextgen { nextgen[i] = nil }
SnapSwap(s) ==
    [s EXCEPT !.members = s.next, !.next = s.members,
              !.arrs[s.members] = SnapNoList,
              !.gen = @ + 1]

\* pop/gen, case val := <-pop.updates: wait--; nextgen[wait] = val; when
\* wait == 0 the swap, and mate = time.After(pop.delay).
SnapUpdatesCase ==
    /\ snap.pkg = "pop/gen"
    /\ snap.wait > 0
    /\ LET s == [snap EXCEPT !.wait = @ - 1,
                             !.arrs[snap.next][snap.wait] = snap.gen + 1]
       IN snap' = IF s.wait = 0 THEN [SnapSwap(s) EXCEPT !.mate = TRUE]
                  ELSE s
    /\ UNCHANGED notSnap

\* pop/gen, case <-mate: cross()
SnapMateCase ==
    /\ snap.pkg = "pop/gen"
    /\ snap.mate
    /\ snap.gen < SnapMaxGen
    /\ snap' = [snap EXCEPT !.mate = FALSE, !.wait = SnapSize]
    /\ UNCHANGED notSnap

\* gen, a goroutine of mate: next[i] = members[i].Cross(suiters...)
SnapCross(i) ==
    /\ snap.pkg = "gen"
    /\ snap.gen < SnapMaxGen
    /\ i \notin snap.done
    /\ snap' = [snap EXCEPT !.arrs[snap.next][i] = snap.gen + 1,
                            !.done = @ \cup {i}]
    /\ UNCHANGED notSnap

\* gen, case <-ready: turnover() sets every p.members[i] = nil and swaps
\* p.members and next; go mate(p.members).
SnapReadyCase ==
    /\ snap.pkg = "gen"
    /\ snap.done = SnapSlots
    /\ snap' = [SnapSwap(snap) EXCEPT !.done = {}]
    /\ UNCHANGED notSnap

SnapNext ==
    \/ \E pkg \in SnapPkgs : SnapNew(pkg)
    \/ SnapMembersCase
    \/ SnapUpdatesCase
    \/ SnapMateCase
    \/ \E i \in SnapSlots : SnapCross(i)
    \/ SnapReadyCase

(***************************************************************************)
(*   Stats: README.md (the documented stats.go) and unnamed/part_013       *)
(***************************************************************************)
\* A float64 is modelled by the exact rational [n, d] in lowest terms with
\* d > 0, or by d = 0 for the values that are not finite: n = 1 is +Inf,
\* n = -1 is -Inf and n = 0 is NaN.  Rounding is not modelled.
RECURSIVE RGcd(_, _)
RGcd(a, b) == IF b = 0 THEN a ELSE RGcd(b, a % b)
RAbs(a) == IF a < 0 THEN 0 - a ELSE a
RSgn(a) == IF a < 0 THEN -1 ELSE IF a > 0 THEN 1 ELSE 0
RNorm(n, d) ==
    IF d = 0 THEN [n |-> RSgn(n), d |-> 0]
    ELSE LET g == RGcd(RAbs(n), RAbs(d))
         IN [n |-> RSgn(d) * (n \div g), d |-> RAbs(d) \div g]
R(a) == [n |-> a, d |-> 1]
RNaN == [n |-> 0, d |-> 0]
RPosInf == [n |-> 1, d |-> 0]
RNegInf == [n |-> -1, d |-> 0]
RAdd(x, y) ==
    IF x.d = 0 \/ y.d = 0
    THEN (IF x.d # 0 THEN y ELSE IF y.d # 0 THEN x
          ELSE IF x.n = y.n THEN x ELSE RNaN)
    ELSE RNorm(x.n * y.d + y.n * x.d, x.d * y.d)
RNeg(x) == [n |-> 0 - x.n, d |-> x.d]
RSub(x, y) == RAdd(x, RNeg(y))
RMul(x, y) ==
    IF x.d = 0 \/ y.d = 0 THEN RNorm(RSgn(x.n) * RSgn(y.n), 0)
    ELSE RNorm(x.n * y.n, x.d * y.d)
RDiv(x, y) ==
    IF x.d # 0 /\ y.d # 0 THEN RNorm(x.n * y.d, x.d * y.n)
    ELSE IF y.d # 0 THEN RNorm(x.n * (IF y.n < 0 THEN -1 ELSE 1), 0)
    ELSE IF x.d # 0 /\ y.n # 0 THEN R(0)
    ELSE RNaN
RLess(x, y) ==
    IF x.d = 0 /\ y.d = 0 THEN x.n < y.n ELSE x.n * y.d < y.n * x.d
\* math.Max and math.Min
RMax(x, y) == IF RLess(x, y) THEN y ELSE x
RMin(x, y) == IF RLess(y, x) THEN y ELSE x

StImpls == {"README", "part_013"}
StValues == (0 - StMaxAbs)..StMaxAbs

\* var s evo.Stats: the zero value.  README.md keeps the mean in field
\* mean and the sum of squared deviations in sumsq; part_013 keeps the sum
\* of the values in field mean's place (named sum there) and the sum of
\* their squares in sumsq.
StZero == [max |-> R(0), min |-> R(0), mean |-> R(0), sumsq |-> R(0),
           count |-> R(0)]

\* README.md, Put, with the accumulator compared to its zero value
\* instead of being set to the infinities
StatsPutNoInit(s, x) ==
    LET delta == RSub(x, s.mean)
        newcount == RAdd(s.count, R(1))
    IN [max |-> RMax(s.max, x),
        min |-> RMin(s.min, x),
        mean |-> RAdd(s.mean, RDiv(delta, newcount)),
        sumsq |-> RAdd(s.sumsq,
                       RMul(RMul(delta, delta), RDiv(s.count, newcount))),
        count |-> newcount]

\* README.md, Put
StatsPut(s, x) ==
    LET s0 == IF s.count = R(0)
              THEN [s EXCEPT !.max = RNegInf, !.min = RPosInf] ELSE s
        delta == RSub(x, s0.mean)
        newcount == RAdd(s0.count, R(1))
    IN [max |-> RMax(s0.max, x),
        min |-> RMin(s0.min, x),
        mean |-> RAdd(s0.mean, RDiv(delta, newcount)),
        sumsq |-> RAdd(s0.sumsq,
                       RMul(RMul(delta, delta), RDiv(s0.count, newcount))),
        count |-> newcount]

\* README.md, Merge
StatsMerge(s, t) ==
    LET s0 == IF s.count = R(0)
              THEN [s EXCEPT !.max = RNegInf, !.min = RPosInf] ELSE s
        delta == RSub(t.mean, s0.mean)
        newcount == RAdd(t.count, s0.count)
    IN [max |-> RMax(s0.max, t.max),
        min |-> RMin(s0.min, t.min),
        mean |-> RAdd(s0.mean, RMul(delta, RDiv(t.count, newcount))),
        sumsq |-> RAdd(RAdd(s0.sumsq, t.sumsq),
                       RMul(RMul(delta, delta),
                            RDiv(RMul(t.count, s0.count), newcount))),
        count |-> newcount]

\* README.md, Mean and Var
StatsMean(s) == s.mean
StatsVar(s) == RDiv(s.sumsq, s.count)

\* part_013, Put
SumPut(s, x) ==
    [max |-> IF RLess(s.max, x) \/ s.count = R(0) THEN x ELSE s.max,
     min |-> IF RLess(x, s.min) \/ s.count = R(0) THEN x ELSE s.min,
     mean |-> RAdd(s.mean, x),
     sumsq |-> RAdd(s.sumsq, RMul(x, x)),
     count |-> RAdd(s.count, R(1))]

\* part_013, Merge: the counts are added before max and min are compared
SumMerge(s, t) ==
    IF t.count = R(0) THEN s
    ELSE LET count == RAdd(s.count, t.count)
         IN [max |-> IF RLess(s.max, t.max) \/ count = R(0)
                     THEN t.max ELSE s.max,
             min |-> IF RLess(s.min, t.min) \/ count = R(0)
                     THEN t.min ELSE s.min,
             mean |-> RAdd(s.mean, t.mean),
             sumsq |-> RAdd(s.sumsq, t.sumsq),
             count |-> count]

\* part_013, Mean and Var
SumMean(s) == IF s.count = R(0) THEN R(0) ELSE RDiv(s.mean, s.count)
SumVar(s) ==
    IF RLess(s.count, R(2)) THEN R(0)
    ELSE RDiv(RSub(RMul(s.count, s.sumsq), RMul(s.mean, s.mean)),
              RMul(s.count, s.count))

Put(impl, s, x) == IF impl = "README" THEN StatsPut(s, x) ELSE SumPut(s, x)
Merge(impl, s, t) ==
    IF impl = "README" THEN StatsMerge(s, t) ELSE SumMerge(s, t)
Mean(impl, s) == IF impl = "README" THEN StatsMean(s) ELSE SumMean(s)
Var(impl, s) == IF impl = "README" THEN StatsVar(s) ELSE SumVar(s)
\* Max, Min, Range and Count are the same in both
Max(s) == s.max
Min(s) == s.min
Range(s) == RSub(s.max, s.min)
Count(s) == s.count.n

StInit ==
    st = [impl |-> "none", phase |-> "none", a |-> StZero, b |-> StZero,
          da |-> <<>>, db |-> <<>>, m |-> StZero]

\* var a, b evo.Stats
StNew(impl) ==
    /\ st.phase = "none"
    /\ st' = [st EXCEPT !.impl = impl, !.phase = "put"]
    /\ UNCHANGED notStats

\* a = a.Put(x)
StPutA(x) ==
    /\ st.phase = "put"
    /\ Len(st.da) < StMaxLen
    /\ st' = [st EXCEPT !.a = Put(st.impl, st.a, R(x)),
                        !.da = Append(@, x)]
    /\ UNCHANGED notStats

\* b = b.Put(x)
StPutB(x) ==
    /\ st.phase = "put"
    /\ Len(st.db) < StMaxLen
    /\ st' = [st EXCEPT !.b = Put(st.impl, st.b, R(x)),
                        !.db = Append(@, x)]
    /\ UNCHANGED notStats

\* stats := a.Merge(b)
StMerge ==
    /\ st.phase = "put"
    /\ st' = [st EXCEPT !.m = Merge(st.impl, st.a, st.b),
                        !.phase = "merged"]
    /\ UNCHANGED notStats

StNext ==
    \/ \E impl \in StImpls : StNew(impl)
    \/ \E x \in StValues : StPutA(x)
    \/ \E x \in StValues : StPutB(x)
    \/ StMerge

(***************************************************************************)
(*    unnamed/part_019: package gen with get, set and Migrate              *)
(***************************************************************************)
\* One population of IslSize members whose Evolve was called, and one call
\* of set by the migration function of a neighbour.  The migrant is the
\* genome IslMaxGenome; children are allocated below it.
IslSlots == 1..IslSize
IslMigrant == IslMaxGenome

\* Evolve and the beginning of run: nextgen is filled with the members and
\* loop holds its token.  nextgen is a buffered channel, a sequence.
IslInit ==
    isl = [members |-> [i \in IslSlots |-> i],
           nextgen |-> [i \in IslSlots |-> i],
           loop |-> TRUE,
           body |-> [i \in IslSlots |-> Nil],
           gen |-> 0,
           fresh |-> IslSize + 1,
           mig |-> [pc |-> "idle", gen |-> 0]]

\* run, case <-loop: every pop.members[i] = <-nextgen, then one goroutine
\* per member is launched with val := pop.members[i].
IslLoopCase ==
    /\ isl.loop
    /\ isl.gen < IslMaxGen
    /\ isl' = [isl EXCEPT !.members = isl.nextgen,
                          !.nextgen = <<>>,
                          !.loop = FALSE,
                          !.body = isl.nextgen,
                          !.gen = @ + 1]
    /\ UNCHANGED notIsl

\* the goroutine of member i: nextgen <- body(val, pop.members);
\* pending.Done().  body returns val or a genome it allocates.
IslBody(i, child) ==
    /\ isl.body[i] # Nil
    /\ \/ child = isl.body[i]
       \/ child = isl.fresh /\ child < IslMigrant
    /\ isl' = [isl EXCEPT !.nextgen = Append(@, child),
                          !.body[i] = Nil,
                          !.fresh = IF child = isl.fresh THEN @ + 1 ELSE @]
    /\ UNCHANGED notIsl

\* pending.Wait(); loop <- struct{}{}
IslPendingWait ==
    /\ ~isl.loop
    /\ isl.gen > 0
    /\ Len(isl.nextgen) = IslSize
    /\ isl' = [isl EXCEPT !.loop = TRUE]
    /\ UNCHANGED notIsl

\* set(i, val) called by Migrate, and run, case pop.setc <- setter:
\* i := <-setter; pop.members[i] = <-pop.valuec
IslSetCase(i) ==
    /\ isl.mig.pc = "idle"
    /\ isl.gen > 0
    /\ isl' = [isl EXCEPT !.members[i] = IslMigrant,
                          !.mig = [pc |-> "done", gen |-> isl.gen]]
    /\ UNCHANGED notIsl

IslNext ==
    \/ IslLoopCase
    \/ \E i \in IslSlots, child \in 1..IslMaxGenome : IslBody(i, child)
    \/ IslPendingWait
    \/ \E i \in IslSlots : IslSetCase(i)

(***************************************************************************)
(*      unnamed/part_018: node.loop, node.Close and graph.Close            *)
(***************************************************************************)
\* One graph of NdSize nodes built by Custom with two peers per node (the
\* layout Ring makes).  Custom sets n.peers[j] = &g.nodes[j] and update
\* reads len(n.peers)>>1 suitors, so every update reads the value of the
\* first node.  A genome's Close returns an error or nil.
NdNodes == 1..NdSize
NdGenomes == 1..NdMaxGenome
NdPeer(n) == 1

\* Custom: every loop is started; loop launches update() at once and err
\* is nil.  updates is the local channel of loop, nil after an error.
NdInit ==
    nod = [node |-> [n \in NdNodes |->
                      [value |-> n, loop |-> "select", err |-> FALSE,
                       updates |-> TRUE, open |-> TRUE]],
          upd |-> [n \in NdNodes |-> [pc |-> "value", child |-> Nil]],
          cl |-> [pc |-> "idle", idx |-> 0, err |-> FALSE],
          fresh |-> NdSize + 1,
          seen |-> Nil]

\* node.Value: vf := <-n.valuec, served by the loop at its select, or the
\* zero value of the closed channel, and then n.value is returned
NdValueReady(n) == nod.node[n].loop = "select" \/ ~nod.node[n].open

\* Value() called by a reader of the population
NdValue(n) ==
    /\ NdValueReady(n)
    /\ nod' = [nod EXCEPT !.seen = nod.node[n].value]
    /\ UNCHANGED notNd

\* update: suiters[i], _ = n.peers[perm[i]].Value()
NdUpdateValue(n) ==
    /\ nod.upd[n].pc = "value"
    /\ NdValueReady(NdPeer(n))
    /\ nod' = [nod EXCEPT !.upd[n].pc = "cross"]
    /\ UNCHANGED notNd

\* update: n.value.Cross(suiters...) returns its receiver or a genome it
\* allocates
NdUpdateCross(n, child) ==
    /\ nod.upd[n].pc = "cross"
    /\ \/ child = nod.node[n].value
       \/ child = nod.fresh /\ child <= NdMaxGenome
    /\ nod' = [nod EXCEPT !.upd[n] = [pc |-> "send", child |-> child],
                        !.fresh = IF child = nod.fresh THEN @ + 1 ELSE @]
    /\ UNCHANGED notNd

\* loop, case child := <-updates: err = n.value.Close(); on an error
\* updates = nil and the select is left, else the child is installed and
\* update() launched again
NdUpdateCase(n, fails) ==
    /\ nod.node[n].loop = "select"
    /\ nod.node[n].updates
    /\ nod.upd[n].pc = "send"
    /\ nod' = IF nod.node[n].value = nod.upd[n].child
             THEN [nod EXCEPT !.upd[n] = [pc |-> "value", child |-> Nil]]
             ELSE IF fails
             THEN [nod EXCEPT !.node[n].err = TRUE,
                             !.node[n].updates = FALSE,
                             !.upd[n] = [pc |-> "none", child |-> Nil]]
             ELSE [nod EXCEPT !.node[n].err = FALSE,
                             !.node[n].value = nod.upd[n].child,
                             !.upd[n] = [pc |-> "value", child |-> Nil]]
    /\ UNCHANGED notNd

\* graph.Close is called
NdCloseStart ==
    /\ nod.cl.pc = "idle"
    /\ nod' = [nod EXCEPT !.cl = [pc |-> "call", idx |-> 1, err |-> FALSE]]
    /\ UNCHANGED notNd

\* node.Close: n.closec <- errc, received by loop, case ch := <-n.closec,
\* which closes the channels
NdCloseCase(n) ==
    /\ nod.cl.pc = "call"
    /\ nod.cl.idx = n
    /\ nod.node[n].loop = "select"
    /\ nod' = [nod EXCEPT !.node[n].open = FALSE,
                        !.node[n].loop = "closing",
                        !.cl.pc = "wait"]
    /\ UNCHANGED notNd

\* loop, close case: if updates != nil { <-updates }
NdCloseDrain(n) ==
    /\ nod.node[n].loop = "closing"
    /\ \/ /\ nod.node[n].updates
          /\ nod.upd[n].pc = "send"
          /\ nod' = [nod EXCEPT !.node[n].loop = "reply",
                              !.upd[n] = [pc |-> "none", child |-> Nil]]
       \/ /\ ~nod.node[n].updates
          /\ nod' = [nod EXCEPT !.node[n].loop = "reply"]
    /\ UNCHANGED notNd

\* graph.Close keeps the error of a node in the place of the ones before
NdAggregateLast(err, erri) == erri

\* graph.Close: if err_i != nil { err = err_i }
NdAggregate(err, erri) == IF erri THEN erri ELSE err

\* loop, close case: ch <- err; return, received by node.Close (return
\* <-errc); graph.Close goes on with the next node or returns err
NdCloseReply(n) ==
    /\ nod.node[n].loop = "reply"
    /\ nod.cl.pc = "wait"
    /\ nod.cl.idx = n
    /\ nod' = [nod EXCEPT !.node[n].loop = "returned",
                        !.cl = [pc |-> IF n = NdSize THEN "done" ELSE "call",
                                idx |-> IF n = NdSize THEN n ELSE n + 1,
                                err |-> NdAggregate(nod.cl.err, nod.node[n].err)]]
    /\ UNCHANGED notNd

\* the steps of the goroutines of the package and of graph.Close once it
\* was called
NdProgress ==
    \/ \E n \in NdNodes : NdUpdateValue(n)
    \/ \E n \in NdNodes, c \in NdGenomes : NdUpdateCross(n, c)
    \/ \E n \in NdNodes, fails \in BOOLEAN : NdUpdateCase(n, fails)
    \/ \E n \in NdNodes : NdCloseCase(n)
    \/ \E n \in NdNodes : NdCloseDrain(n)
    \/ \E n \in NdNodes : NdCloseReply(n)

NdNext ==
    \/ NdProgress
    \/ \E n \in NdNodes : NdValue(n)
    \/ NdCloseStart

(***************************************************************************)
(*        gen/generational.go: the injections and the turnover             *)
(***************************************************************************)
\* The population of GenSize members with the Cross calls that inject
\* genomes of other populations into it.  The members return themselves
\* from Cross, so that a member changes only by an injection.  accepted
\* is the set of genomes the loop received on p.com.inject since the last
\* turnover, last the set it had received when the last turnover ran.
InjForeign == (GenSize + 1)..(GenSize + InjMaxForeign)

\* New starts loop, which starts the initial iteration.
InjInit ==
    inj = [members |-> [i \in GenSlots |-> i],
           next |-> [i \in GenSlots |-> Nil],
           inject |-> Nil,
           ready |-> FALSE,
           turns |-> 0,
           accepted |-> {},
           last |-> {}]

\* mate: next[i] = members[i].Cross(suiters...) for every member, then
\* wg.Wait() returns
InjMate ==
    /\ ~inj.ready
    /\ inj' = [inj EXCEPT !.next = inj.members, !.ready = TRUE]
    /\ UNCHANGED notInj

\* population.Cross: p.com.inject <- v.Max(), received by the loop, case
\* inject = <-p.com.inject
InjInjectCase(g) ==
    /\ inj.turns < InjMaxTurns
    /\ \A i \in GenSlots : inj.members[i] # g
    /\ inj' = [inj EXCEPT !.inject = g, !.accepted = @ \cup {g}]
    /\ UNCHANGED notInj

\* loop, case <-ready: turnover() with i := rand.Intn(len(next)), then
\* go mate(p.members)
InjReadyCase(i) ==
    /\ inj.ready
    /\ inj.turns < InjMaxTurns
    /\ inj' = [inj EXCEPT !.members = GenInjectNext(inj.next, inj.inject, i),
                          !.next = [k \in GenSlots |-> Nil],
                          !.inject = Nil,
                          !.ready = FALSE,
                          !.turns = @ + 1,
                          !.accepted = {},
                          !.last = inj.accepted]
    /\ UNCHANGED notInj

InjNext ==
    \/ InjMate
    \/ \E g \in InjForeign : InjInjectCase(g)
    \/ \E i \in GenSlots : InjReadyCase(i)

(***************************************************************************)
(*        sel/round_robin.go: rrcomps.tourney, round by round              *)
(***************************************************************************)
\* One call pool.tourney(rounds).  The competitors are indices of pool;
\* hist holds the schedule every round was started with, sent the number
\* of sends on winners the goroutines started so far make for each
\* competitor, wins the score and start the score before the tournament.
TrnSizes == 1..(2 * TrnMaxHalf)
TrnPools == UNION {[1..n -> dummy..TrnMaxFit] : n \in TrnSizes}

\* rand.Perm and the orders sort.Sort can leave, of every size
TrnPerms == UNION {SelPerms(n) : n \in TrnSizes}

\* no tournament has been called
TrnInit ==
    trn = [phase |-> "none", pool |-> <<>>, sched |-> <<>>, rounds |-> 0,
           hist |-> <<>>, sent |-> <<>>, start |-> <<>>, wins |-> <<>>,
           rank |-> <<>>]

\* tourney(rounds): sched = rand.Perm(len(pool)); an odd size panics
TourneyStart(pool, rounds, sched) ==
    /\ trn.phase = "none"
    /\ DOMAIN sched = 1..Len(pool)
    /\ trn' = [trn EXCEPT
          !.phase = IF Len(pool) % 2 # 0 THEN "panic" ELSE "rounds",
          !.pool = pool, !.sched = sched, !.rounds = rounds,
          !.sent = [c \in 1..Len(pool) |-> 0],
          !.start = RRWins(pool, sched, 0),
          !.wins = RRWins(pool, sched, 0)]
    /\ UNCHANGED notTrn

\* one iteration of the loop over the rounds: go run(sched[i],
\* sched[size-1-i]) for i < half, then the rotation of the schedule
TourneyRound ==
    /\ trn.phase = "rounds"
    /\ Len(trn.hist) < trn.rounds
    /\ trn' = [trn EXCEPT
          !.hist = Append(@, trn.sched),
          !.sent = [c \in 1..Len(trn.pool) |->
                       @[c] + RRRoundWins(trn.pool, trn.sched, c)],
          !.sched = RRRotate(@)]
    /\ UNCHANGED notTrn

\* after the rounds: tcount receives j := <-winners with pool[j].wins++,
\* then sort.Sort(pool)
TourneyCount(order) ==
    /\ trn.phase = "rounds"
    /\ Len(trn.hist) = trn.rounds
    /\ DOMAIN order = 1..Len(trn.pool)
    /\ LET wins == [c \in 1..Len(trn.pool) |-> trn.wins[c] + trn.sent[c]]
       IN /\ RRSorted(wins, order)
          /\ trn' = [trn EXCEPT !.phase = "done", !.wins = wins,
                                !.rank = order]
    /\ UNCHANGED notTrn

TrnNext ==
    \/ /\ trn.phase = "none"
       /\ \E pool \in TrnPools, rounds \in 0..(2 * TrnMaxHalf),
             sched \in TrnPerms : TourneyStart(pool, rounds, sched)
    \/ TourneyRound
    \/ /\ trn.phase = "rounds"
       /\ \E order \in TrnPerms : TourneyCount(order)

(***************************************************************************)
(* Specifications: one per package generation.                             *)
(***************************************************************************)
Init ==
    /\ GInit /\ DInit /\ PInit /\ GenInit /\ PopInit /\ SelInit /\ TopoInit
    /\ IterInit /\ SnapInit /\ StInit /\ IslInit /\ NdInit /\ InjInit
    /\ TrnInit

SpecGraph == Init /\ [][GNext]_vars
SpecDiff == Init /\ [][DNext]_vars
SpecPause == Init /\ [][PNext]_vars
SpecGen == Init /\ [][GenNext]_vars
SpecPopGen == Init /\ [][PopNext]_vars
SpecPopMig == Init /\ [][PopMigNext]_vars
SpecSel == Init /\ [][SelNext]_vars
SpecTopo == Init /\ [][TopoNext]_vars
SpecIter == Init /\ [][IterLoopNext]_vars
SpecSnap == Init /\ [][SnapNext]_vars
SpecStats == Init /\ [][StNext]_vars
SpecIsland == Init /\ [][IslNext]_vars
SpecNodeClose == Init /\ [][NdNext]_vars
SpecInject == Init /\ [][InjNext]_vars
SpecTourney == Init /\ [][TrnNext]_vars

(***************************************************************************)
(* Claims checked under SpecGraph.                                         *)
(***************************************************************************)

\* C1: when graph.Close has returned, no evolution goroutine launched by a
\* node of that graph is still executing Evolve or blocked on delivering
\* its result.
C1_CloseLeavesNoEvolution ==
    \A gr \in GGraphs :
        gCl[gr].pc = "done" =>
            \A n \in GNodesOf(gr), s \in GSlots :
                gEvo[n][s].pc \notin {"evolve", "send"}

C7_ExchangeNeverMismatched ==
    (\A m \in GMigs : gMig[m].pc \in {"idle", "done"}) =>
        \A n1 \in GNodes, n2 \in GNodes :
            (n1 # n2 /\ gNode[n1].loop = "select" /\ gNode[n2].loop = "select")
                => gNode[n1].nextval # gNode[n2].nextval

(***************************************************************************)
(* Claims checked under SpecDiff.                                          *)
(***************************************************************************)

\* C3: after node.Close has returned (the loop goroutine has answered and
\* returned), exactly one Close has been issued to the genome that finally
\* occupies the node.
C3_FinalGenomeClosedOnce ==
    \A n \in DNodes :
        dNode[n].loop = "returned" => dHeap.closes[dNode[n].value] = 1

\* C5: no closed genome is handed out: whenever a mating goroutine is about
\* to call Cross, neither the receiver nor any suitor it got from Value()
\* has received Close.
C5_NoUseAfterClose ==
    \A n \in DNodes :
        dMate[n].pc = "call" =>
            /\ ~DClosed(dHeap, dMate[n].val)
            /\ \A k \in 1..Len(dMate[n].suit) : ~DClosed(dHeap, dMate[n].suit[k])

\* C6: at every moment a genome instance occupies at most one slot over
\* all populations.
C6_OneSlotPerGenome ==
    \A n1 \in DNodes, n2 \in DNodes :
        n1 # n2 => dNode[n1].value # dNode[n2].value

(***************************************************************************)
(* Claims checked under SpecPause.                                         *)
(***************************************************************************)

\* C8: migration never deadlocks: while some exchange between two running
\* graphs has started and not completed, some goroutine of the system can
\* take a step (each caller pausing its own node and then waiting for the
\* other's, or a graph pausing the same node twice, would leave none).
C8_MigrationNeverDeadlocks ==
    (\E m \in PGraphs : pMig[m].pc \notin {"idle", "done"}) => ENABLED PNext

(***************************************************************************)
(* Claims checked under SpecGen.                                           *)
(***************************************************************************)

\* C4: no genome instance ever receives Close twice, over any sequence of
\* evolutions, injections, turnovers and Close (including a parent that
\* returned itself as its child whose slot an injection then replaces).
C4_NoGenomeClosedTwice ==
    \A x \in GenGenomes : genHeap.closes[x] <= 1

(***************************************************************************)
(* Claims checked under SpecPopMig.                                        *)
(***************************************************************************)

\* C9: generational migration never deadlocks: while both populations run
\* and a call of Evolve has started and not returned, some goroutine of the
\* package (run, an evolution, a migration goroutine or Evolve itself) can
\* take a step.
C9_MigrationNeverDeadlocks ==
    (/\ \A p \in PopIds : popPop[p].loop = "select"
     /\ \E e \in PopIds : popEv[e].pc \notin {"idle", "done"})
    => ENABLED PopProgress

(***************************************************************************)
(* Claims checked under SpecPopGen.                                        *)
(***************************************************************************)

C11_CloseClosesMembers ==
    \A p \in PopIds : popCl[p] = "done" =>
        \A i \in PopSlots : popSys.closes[popPop[p].members[i]] = 1

(***************************************************************************)
(* Claims checked under SpecSel.                                           *)
(***************************************************************************)

\* C12: the genomes returned by Get on ElitePool(mu, lambda), mu <= lambda,
\* are, round after round, the mu fittest of the lambda competitors of the
\* round, fittest first, and none is returned before its round has all its
\* lambda competitors.
C12_EliteWinnersInOrder ==
    (selCfg.kind = "ElitePool" /\ selCfg.mu <= selCfg.lambda) =>
        /\ Len(selHist.got) <= Len(selHist.expect)
        /\ selHist.got = SubSeq(selHist.expect, 1, Len(selHist.got))

\* C12 witness: an ElitePool(2, 3) has delivered the two winners of its
\* second round.
C12_Witness ==
    /\ selCfg.kind = "ElitePool"
    /\ selCfg.mu = 2
    /\ selCfg.lambda = 3
    /\ Len(selHist.got) = 2 * selCfg.mu
    /\ selHist.got = selHist.expect

\* C13: a pool never returns more genomes from Get than mu times the
\* number of completed groups of lambda Puts.
C13_NoWinnerBeforeLambda ==
    selCfg.kind # "none" =>
        Len(selHist.got) <= selCfg.mu * (selHist.puts \div selCfg.lambda)

\* C14: ElitePool and RoundRobinPool accept a Put of the next round only
\* after Get has returned all mu winners of the rounds before it.
C14_PutBackPressure ==
    (/\ selCfg.kind \in {"ElitePool", "RoundRobinPool"}
     /\ selCfg.mu <= selCfg.lambda
     /\ selHist.puts >= 1)
    => Len(selHist.got) >= selCfg.mu * ((selHist.puts - 1) \div selCfg.lambda)

\* C15: a pool constructed with lambda < mu never returns a genome from Get.
C15_SmallLambdaDeliversNothing ==
    (selCfg.kind \in {"ElitePool", "RoundRobinPool"} /\ selCfg.lambda < selCfg.mu)
    => selHist.got = <<>>

(***************************************************************************)
(* Claims checked under SpecTopo.                                          *)
(***************************************************************************)

\* C16: Custom succeeds whenever every neighbour index of the layout is in
\* [0, N), whatever the length of the neighbour lists, and fails whenever
\* some index is >= N.
C16_CustomValidation ==
    topo.fn = "Custom" =>
        LET inRange == \A i \in 0..(topo.size - 1) :
                          \A k \in 1..Len(topo.layout[i]) :
                             topo.layout[i][k] < topo.size
        IN topo.ok <=> inRange

\* C17: in a graph made by Custom, the j-th peer of node i is the node
\* with index layout[i][j].
C17_CustomWiring ==
    (topo.fn = "Custom" /\ topo.ok) =>
        \A i \in 0..(topo.size - 1) : topo.peers[i] = topo.layout[i]

\* C18: the neighbour list Ring computes for node i is exactly
\* {(i-1+N) mod N, (i+1) mod N}.
C18_RingNeighbours ==
    topo.fn = "Ring" =>
        \A i \in 0..(topo.size - 1) :
            {topo.layout[i][k] : k \in 1..Len(topo.layout[i])}
               = {(i - 1 + topo.size) % topo.size, (i + 1) % topo.size}

\* C19: the four neighbours Grid computes for node i are (i+1) mod N,
\* (i-1) mod N, (i+N/2) mod N and (i-N/2) mod N.
C19_GridNeighbours ==
    topo.fn = "Grid" =>
        \A i \in 0..(topo.size - 1) :
            topo.layout[i] =
               <<(i + 1) % topo.size, (i - 1) % topo.size,
                 (i + (topo.size \div 2)) % topo.size,
                 (i - (topo.size \div 2)) % topo.size>>

C21_SecondCloseReturns ==
    \A gr \in DGraphs : dCl[gr].pc # "panic"

\* the paths of the leaf genomes of p, in the order of the members
RECURSIVE IterLeavesFrom(_, _)
IterLeavesFrom(p, k) ==
    IF k > Len(p.vals) THEN <<>>
    ELSE (IF IterIsPop(p.vals[k])
          THEN LET sub == IterLeavesFrom(p.vals[k], 1)
               IN [j \in 1..Len(sub) |-> <<k - 1>> \o sub[j]]
          ELSE << <<k - 1>> >>) \o IterLeavesFrom(p, k + 1)

\* C22: Iter yields every leaf genome exactly once, in place of the
\* population that holds it, and Value() is nil only after all leaves were
\* yielded: the loop over the iterator never faults or blocks, what it has
\* yielded is always a prefix of the leaves, and all of them once it ends.
C22_IterYieldsLeaves ==
    /\ itr.phase \notin {"panic", "blocked"}
    /\ itr.phase \in {"loop", "done"} =>
          /\ Len(itr.out) <= Len(IterLeavesFrom(itr.pop, 1))
          /\ itr.out = SubSeq(IterLeavesFrom(itr.pop, 1), 1, Len(itr.out))
    /\ itr.phase = "done" => itr.out = IterLeavesFrom(itr.pop, 1)

RECURSIVE StFold(_, _, _)
StFold(impl, s, seq) ==
    IF seq = <<>> THEN s ELSE StFold(impl, Put(impl, s, R(Head(seq))), Tail(seq))

StSeqMax(seq) == CHOOSE x \in StValues :
                    /\ \E i \in 1..Len(seq) : seq[i] = x
                    /\ \A i \in 1..Len(seq) : seq[i] <= x
StSeqMin(seq) == CHOOSE x \in StValues :
                    /\ \E i \in 1..Len(seq) : seq[i] = x
                    /\ \A i \in 1..Len(seq) : seq[i] >= x

\* C24: merging the Stats built from two parts of a value sequence gives
\* the same count, mean and population variance as inserting all values
\* one by one into a single Stats.
C24_MergeIsIncremental ==
    st.phase = "merged" =>
        LET all == StFold(st.impl, StZero, st.da \o st.db)
        IN /\ Count(st.m) = Count(all)
           /\ Mean(st.impl, st.m) = Mean(st.impl, all)
           /\ Var(st.impl, st.m) = Var(st.impl, all)

\* C25: merging a non-empty Stats with an empty one, in either order,
\* gives the count, min, max, mean and spread of the non-empty operand.
C25_MergeWithEmpty ==
    (st.phase = "merged" /\ (st.da = <<>>) # (st.db = <<>>)) =>
        LET s == IF st.da = <<>> THEN st.b ELSE st.a
        IN /\ Count(st.m) = Count(s)
           /\ Min(st.m) = Min(s)
           /\ Max(st.m) = Max(s)
           /\ Mean(st.impl, st.m) = Mean(st.impl, s)
           /\ st.m.sumsq = s.sumsq

\* C26: after a non-empty sequence of Put calls from the zero Stats, Max()
\* is the largest inserted value, Min() the smallest, Range() their
\* difference and Count() the number of insertions.
C26_PutTracksExtremes ==
    st.da # <<>> =>
        /\ Max(st.a) = R(StSeqMax(st.da))
        /\ Min(st.a) = R(StSeqMin(st.da))
        /\ Range(st.a) = R(StSeqMax(st.da) - StSeqMin(st.da))
        /\ Count(st.a) = Len(st.da)

\* C26 witness: the first value put into the documented Stats was
\* negative and the second smaller still.
C26_Witness ==
    /\ st.impl = "README"
    /\ st.da = <<-1, -2>>
    /\ Max(st.a) = R(-1)
    /\ Min(st.a) = R(-2)

\* C27: after merging two non-empty Stats, Min() is the smaller of the two
\* minima and Max() the larger of the two maxima.
C27_MergeExtremes ==
    (st.phase = "merged" /\ st.da # <<>> /\ st.db # <<>>) =>
        /\ Min(st.m) = RMin(Min(st.a), Min(st.b))
        /\ Max(st.m) = RMax(Max(st.a), Max(st.b))

(***************************************************************************)
(* Claims about the value of a node.                                       *)
(***************************************************************************)
\* no migrator has sent a genome to a node yet
GNoExternalWrite == \A m \in GMigs : gMig[m].pc \notin {"sndX", "done", "panic"}

\* C28: when the evolution of a pop/graph node completes with child c and
\* no external write reached the node, c becomes the value of the node
\* (the value that Value() returns).
C28_CompletionInstallsChild ==
    [][\A n \in GNodes, s \in GSlots :
          (/\ GNoExternalWrite
           /\ gEvo[n][s].pc = "send"
           /\ gEvo'[n][s].pc = "idle")
             => gNode'[n].val = gEvo[n][s].new]_vars

\* C29: when an external write hands genome g to the run loop of a
\* pop/graph node while an evolution is in flight, the value of the node
\* (the value that Value() returns) is g from the write on.
C29_ExternalWriteWins ==
    [][\A m \in GMigs :
          (/\ GMigSending(m)
           /\ GInFlight(GMigSendNode(m)) # {}
           /\ gMig'[m] = GMigAfterSend(m)
           /\ gEvo' = gEvo)
             => gNode'[GMigSendNode(m)].val = GMigSendVal(m)]_vars

\* C30: a genome placed into a generational population by migration is
\* not overwritten by the completion of evolutions started before it
\* arrived: it is still a member during the generation that follows the
\* one it arrived in.
C30_MigrantSurvives ==
    (isl.mig.pc = "done" /\ isl.gen = isl.mig.gen + 1) =>
        \E i \in IslSlots : isl.members[i] = IslMigrant

(***************************************************************************)
(* Claims checked under SpecPopMig.                                        *)
(***************************************************************************)
\* the results of the current generation of population p that are still
\* outstanding: evolutions that have not returned, results waiting in
\* pop.updates, and results held by a migration goroutine or on their way
\* through Evolve
PopOutstanding(p) ==
    Cardinality({i \in PopSlots : popEvo[p][i] = "call"})
    + Len(popPop[p].updates)
    + Cardinality({e \in PopIds : popMig[p][e].pc \in {"send", "recv", "put"}})

\* the number of places that hold genome g as a part of the generation
\* being built: the evolution that will return it, pop.updates, nextgen,
\* a migration goroutine, the variables a and b of Evolve; between two
\* generations, the member list
PopCopies(g) ==
    Cardinality({<<p, i>> \in PopIds \X PopSlots :
        \/ popEvo[p][i] = "call" /\ popPop[p].members[i] = g
        \/ popPop[p].nextgen[i] = g
        \/ popPop[p].wait = 0 /\ popPop[p].members[i] = g
        \/ i <= Len(popPop[p].updates) /\ popPop[p].updates[i] = g})
    + Cardinality({<<p, e>> \in PopIds \X PopIds :
        popMig[p][e].pc \in {"send", "put"} /\ popMig[p][e].val = g})
    + Cardinality({e \in PopIds :
        popEv[e].pc \in {"recvB", "sendA", "sendB"} /\ popEv[e].a = g})
    + Cardinality({e \in PopIds : popEv[e].pc = "sendA" /\ popEv[e].b = g})

\* C31: a generational migration is a pairwise swap that preserves size:
\* the genome a that Evolve holds was taken from the results of A and the
\* genome b from the results of B, A receives b and B receives a, every
\* genome is in exactly one place, the number of outstanding results of a
\* population equals its counter wait, and a generation that has just
\* completed has PopSize distinct members.
C31_MigrationIsSwap ==
    /\ ~popSys.panic
    /\ \A p \in PopIds :
          popPop[p].loop = "select" => popPop[p].wait = PopOutstanding(p)
    /\ \A g \in 1..(2 * PopSize) : PopCopies(g) = 1
    /\ \A e \in PopIds :
          /\ popEv[e].pc = "sendA" =>
                /\ popMig[e][e] = [pc |-> "recv", val |-> popEv[e].a]
                /\ popMig[PopOther(e)][e] = [pc |-> "recv", val |-> popEv[e].b]
          /\ popMig[e][e].pc = "put" => popMig[e][e].val = popEv[e].b
          /\ popMig[PopOther(e)][e].pc = "put" =>
                popMig[PopOther(e)][e].val = popEv[e].a
    /\ \A p \in PopIds :
          popPop[p].mate =>
             \A i, j \in PopSlots :
                /\ popPop[p].members[i] # Nil
                /\ i # j => popPop[p].members[i] # popPop[p].members[j]

\* C31 witness: A.Evolve(B) has returned, and population B has completed
\* a generation that holds the genome a taken from A, while A has
\* completed one that holds the genome b taken from B.
C31_Witness ==
    /\ popEv[1].pc = "done"
    /\ popEv[1].a # popEv[1].b
    /\ popPop[1].mate /\ popPop[2].mate
    /\ \E i \in PopSlots : popPop[2].members[i] = popEv[1].a
    /\ \E i \in PopSlots : popPop[1].members[i] = popEv[1].b

(***************************************************************************)
(* Claims checked under SpecSel (round-robin pool).                        *)
(***************************************************************************)

\* C32: after at least lambda - 1 rounds of the tournament, the genomes
\* returned by Get on RoundRobinPool(mu, lambda, rounds), mu <= lambda,
\* are, round after round, the mu fittest of the lambda competitors,
\* fittest first, for every schedule and every order the sort leaves
\* among equal scores.
C32_RoundRobinRanksByFitness ==
    (/\ selCfg.kind = "RoundRobinPool"
     /\ selCfg.mu <= selCfg.lambda
     /\ selCfg.rounds >= selCfg.lambda - 1) =>
        /\ Len(selHist.got) <= Len(selHist.expect)
        /\ selHist.got = SubSeq(selHist.expect, 1, Len(selHist.got))

\* C33: for odd lambda the round-robin pool holds exactly one sentinel
\* when the tournament starts, the sentinel is not the winner of any
\* pairing the schedule can make, whatever the fitness of its opponent,
\* and with mu <= lambda Get never returns the sentinel.
C33_SentinelNeverWins ==
    (selCfg.kind = "RoundRobinPool" /\ selCfg.lambda % 2 # 0) =>
        /\ (selPool.phase = "fill" /\ Len(selPool.pool) = selCfg.lambda) =>
              LET pool == RRPadded(selPool.pool)
              IN /\ Cardinality({k \in 1..Len(pool) : pool[k] = dummy}) = 1
                 /\ \A i, j \in 1..Len(pool) :
                       i # j => pool[RRWinner(pool, i, j)] # dummy
        /\ selCfg.mu <= selCfg.lambda => dummy \notin SelRange(selHist.got)

\* Get returned the sentinel although mu <= lambda
C33_SentinelDelivered ==
    /\ selCfg.kind = "RoundRobinPool"
    /\ selCfg.mu <= selCfg.lambda
    /\ dummy \in SelRange(selHist.got)

\* the stable ranking of a pool: descending by score, and in the order of
\* arrival (the index in the pool) among equal scores
SelStableRanking(pool, score) ==
    LET order == CHOOSE f \in SelPerms(Len(pool)) :
                    \A a, b \in 1..Len(pool) :
                       a < b => \/ score[f[a]] > score[f[b]]
                                \/ score[f[a]] = score[f[b]] /\ f[a] < f[b]
    IN [k \in 1..Len(pool) |-> pool[order[k]]]

\* C34: the ranking of a pool is stable: the winners an ElitePool or a
\* RoundRobinPool is about to emit are the first mu of its competitors in
\* descending order of score (the fitness, or the wins of the tournament
\* under the schedule drawn), with equal scores in the order of their Put.
C34_StableRanking ==
    [][(/\ selCfg.kind \in {"ElitePool", "RoundRobinPool"}
        /\ selPool.phase = "fill"
        /\ selPool'.phase = "send") =>
          IF selCfg.kind = "ElitePool"
          THEN selPool'.pool =
                  SubSeq(SelStableRanking(selPool.pool,
                            [k \in 1..Len(selPool.pool) |-> Fitness(selPool.pool[k])]),
                         1, selCfg.mu)
          ELSE \E sched \in SelPerms(Len(RRPadded(selPool.pool))) :
                  selPool'.pool =
                     SubSeq(SelStableRanking(RRPadded(selPool.pool),
                               RRWins(RRPadded(selPool.pool), sched, selCfg.rounds)),
                            1, selCfg.mu)]_vars

(***************************************************************************)
(* Claims checked under SpecNodeClose.                                     *)
(***************************************************************************)

\* C35: per-node Close errors are non-fatal and aggregated: when graph
\* Close has returned it has closed every node, also after a node that
\* reported an error, and its result is non-nil exactly when some node
\* reported an error; a node whose genome Close failed still answers
\* Value(), and a graph Close in progress can always take its next step.
C35_CloseErrorsAggregated ==
    /\ nod.cl.pc = "done" =>
          /\ \A n \in NdNodes : nod.node[n].loop = "returned"
          /\ nod.cl.err <=> \E n \in NdNodes : nod.node[n].err
    /\ \A n \in NdNodes : nod.node[n].err => ENABLED NdValue(n)
    /\ nod.cl.pc \in {"call", "wait"} => ENABLED NdProgress

\* C35 witness: graph Close has returned an error after the first node
\* reported one, the genome Close of the second node never having failed,
\* and a reader got the value of the first node after its loop returned.
C35_Witness ==
    /\ nod.cl.pc = "done"
    /\ nod.cl.err
    /\ nod.node[1].err
    /\ ~nod.node[2].err
    /\ nod.node[2].loop = "returned"
    /\ nod.seen = nod.node[1].value
    /\ nod.node[1].value # 1

(***************************************************************************)
(* Claims checked under SpecGraph (reads and writes of one node).          *)
(***************************************************************************)

\* C36: reads and external writes of one node do not interfere: when a
\* migrator completes the send of a genome to a node, the genome was
\* received by the run loop of that node (it is the node's nextval) and
\* no reader of the node's value has received anything in that step.
C36_WriteReachesLoop ==
    [][\A m \in GMigs :
          (GMigSending(m) /\ gMig'[m] = GMigAfterSend(m)) =>
             /\ gNode'[GMigSendNode(m)].nextval = GMigSendVal(m)
             /\ gEvo' = gEvo]_vars

\* the send of migrator m can complete: the run loop or a reader of the
\* node receives it
GMigCanSend(m) ==
    \/ GSendToLoop(m)
    \/ \E n \in GNodes, s \in GSlots : GGatherFromMig(n, s, m)

\* C37: a graph migration that involves a node that is not running (never
\* started, or closed before or during the migration) does not fault, and
\* its send to such a node does not block: it can complete.
C37_EvolveOnStoppedGraphReturns ==
    \A m \in GMigs :
        /\ gMig[m].pc # "panic"
        /\ (GMigSending(m) /\ ~gNode[GMigSendNode(m)].running) =>
              ENABLED GMigCanSend(m)

\* a migrator is at its send to a node that was never started: the
\* channel is nil
C37_SendOnNilChannel ==
    \E m \in GMigs :
        /\ GMigSending(m)
        /\ gNode[GMigSendNode(m)].loop = "none"
        /\ \A gr \in GGraphs : gCl[gr].pc = "idle"

\* a migrator has faulted at its send to a node that Close has closed
C37_SendOnClosedChannel ==
    \E m \in GMigs : gMig[m].pc = "panic"

(***************************************************************************)
(* Claims checked under SpecIter (populations that are not running).       *)
(***************************************************************************)

\* the population is not running (never started, or closed) and holds
\* N >= 1 genomes that are not populations
IterStoppedFlat(p) ==
    /\ p.run \in {"new", "closed"}
    /\ Len(p.vals) >= 1
    /\ \A k \in 1..Len(p.vals) : ~IterIsPop(p.vals[k])

\* C38: Iter (and so Stats) on a population that is not running always
\* returns and covers its N members: the loop over the iterator does not
\* block or fault, and when it ends it has yielded every member once, in
\* order.
C38_StoppedPopulationIterates ==
    (itr.phase # "none" /\ IterStoppedFlat(itr.pop)) =>
        /\ itr.phase \notin {"blocked", "panic"}
        /\ itr.phase = "done" =>
              itr.out = [k \in 1..Len(itr.pop.vals) |-> <<k - 1>>]

(***************************************************************************)
(* Claims checked under SpecInject.                                        *)
(***************************************************************************)

\* C39: no injection is lost: every genome the loop accepted on the
\* injection channel during a generation is a member of the population
\* after the turnover that ends the generation, also when it accepted
\* more than one.
C39_NoInjectionLost ==
    \A g \in inj.last : \E i \in GenSlots : inj.members[i] = g

\* one injection accepted during a generation is a member after the
\* turnover
C39_SingleInjectionLands ==
    Cardinality(inj.last) = 1 => C39_NoInjectionLost

(***************************************************************************)
(* Claims checked under SpecTourney.                                       *)
(***************************************************************************)

\* the two competitors of pairing k of a round started with schedule sched
TrnPair(sched, k) == {sched[k], sched[Len(sched) + 1 - k]}

\* the sum of the wins the competitors 1..n gained in the tournament
RECURSIVE TrnGained(_)
TrnGained(n) ==
    IF n = 0 THEN 0 ELSE trn.wins[n] - trn.start[n] + TrnGained(n - 1)

\* C40: the schedule of a tournament of even size is a circle schedule: in
\* each round every competitor takes part in exactly one pairing and none
\* is paired with itself, over size-1 consecutive rounds every unordered
\* pair of competitors meets exactly once, and after R rounds the wins
\* gained add up to R*size/2.
C40_CircleSchedule ==
    LET size == Len(trn.pool)
        half == size \div 2
    IN  trn.phase \in {"rounds", "done"} =>
          /\ \A r \in 1..Len(trn.hist) :
                /\ \A k \in 1..half : Cardinality(TrnPair(trn.hist[r], k)) = 2
                /\ \A c \in 1..size :
                      Cardinality({k \in 1..half : c \in TrnPair(trn.hist[r], k)}) = 1
          /\ \A w \in 1..Len(trn.hist) :
                w + size - 2 <= Len(trn.hist) =>
                   \A a, b \in 1..size :
                      a < b =>
                         Cardinality({rk \in (w..(w + size - 2)) \X (1..half) :
                                         TrnPair(trn.hist[rk[1]], rk[2]) = {a, b}}) = 1
          /\ trn.phase = "done" => TrnGained(size) = trn.rounds * half

\* a tournament of four competitors is done after four rounds
C40_Witness ==
    /\ trn.phase = "done"
    /\ Len(trn.pool) = 4
    /\ trn.rounds = 4
    /\ Len(trn.hist) = 4

====
